---- MODULE Spec2Model ----
(***************************************************************************)
(* Streaming text-to-speech server (examples/say-server/server.py): the    *)
(* incremental text chunker, the per-session queue worker, the poll        *)
(* endpoint and the widget's poll loop.                                    *)
(*                                                                         *)
(* Text is a sequence of one-character strings over Chars.  The audio      *)
(* payload of a chunk (audio_base64, duration_ms) comes from the external  *)
(* synthesis engine and is not represented; a chunk keeps its index and    *)
(* its character range.                                                    *)
(***************************************************************************)
EXTENDS Integers, Sequences, FiniteSets, TLC

\* ------------------------------------------------------------------ bounds

\* Chunker thresholds.  The server builds the chunker with the defaults
\* max_tokens=50, min_tokens=15; the model scales both down so that texts of
\* a few characters cross them.
max_tokens == 3
min_tokens == 2

\* How many fragments add_tts_text accepts per session.
MaxAdds == 2

\* How long a string the chunker is fed on its own.
MaxLen == 4

\* The widget on its own: how far the audio clock runs, how many chunks the
\* server returns in all and in one poll response, how many sessions it
\* creates, how many tool-input events the host sends, how many calls of
\* togglePlayPause are under way at once.
MaxTime == 3
MaxChunks == 2
MaxPerPoll == 2
MaxSessions == 2
MaxInputs == 2
MaxToggles == 1

\* The widget with clicks during an audio operation: how many calls of
\* togglePlayPause and restartPlayback are under way at once, over how many
\* chunks and how much time.
MaxRacing == 2
MaxRaceChunks == 1
MaxRaceTime == 2

\* The longest token sequence _find_best_split is applied to on its own.
MaxTokenLen == 5

\* How many fragments each of two sessions side by side is sent.
MaxPairAdds == 1

\* How many sessions the widget makes over its turns and restarts, over how
\* many chunks and how much time.
MaxTurnSessions == 3
MaxTurnChunks == 1
MaxTurnTime == 2

\* getCharacterPosition on its own: how long the text read is, how many
\* entries the list of timings gets, and how far the times go (in seconds).
MaxTextLen == 3
MaxTimings == 2
MaxSampleTime == 4

\* Time is counted in units of 50 ms.  The tolerance of 0.05 s with which
\* the progress timer and onended compare currentTime to nextPlayTimeRef is
\* one unit; the 0.01 s with which onended compares the end of its buffer to
\* nextPlayTimeRef is less than a unit.
FinishTolerance == 1
EndTolerance == 0

\* The characters per second getCharacterPosition counts while no timing is
\* listed.
CharsPerSecond == 12

\* ------------------------------------------------------------------ values

\* The ids uuid4 hands out, one per session.
SessionIds == {"q1"}

\* The ids a caller may pass: those of the sessions, and one no session has.
QueueIds == SessionIds \cup {"q0"}

\* The ids of two sessions that live side by side, and every id there is.
PairIds == {"q1", "q2"}
AllIds == QueueIds \cup PairIds

Chars == {"a", ".", " "}

\* The fragments a caller submits.
Fragments == { <<"a", ".">>, <<" ", "a">>, <<"a", ".", "a", ".">> }

\* The texts of the exceptions the synthesis call may raise.
ErrorTexts == {"E1", "E2"}

\* Python's None: an unset error_message, a null id, no chunk.
None == "None"

\* The None that end_tts_queue and cancel_tts_queue put on text_queue: a
\* sequence, as the fragments are, and none of them.
EndOfText == <<None>>

\* ----------------------------------------------------------------- strings

RECURSIVE lstrip(_)
lstrip(s) ==
    IF s # <<>> /\ Head(s) = " " THEN lstrip(Tail(s)) ELSE s

RECURSIVE rstrip(_)
rstrip(s) ==
    IF s # <<>> /\ s[Len(s)] = " " THEN rstrip(SubSeq(s, 1, Len(s) - 1)) ELSE s

strip(s) == lstrip(rstrip(s))

\* --------------------------------------------------------------- tokenizer
\* The SentencePiece tokenizer of the synthesis engine, on the model's
\* alphabet: one piece per non-space character; sp marks a piece that
\* starts a word (the piece carries the word-start marker, which stands for
\* the whitespace before it; whitespace runs collapse and the first piece of
\* a text always carries the marker).

RECURSIVE Pieces(_, _)
Pieces(text, sp) ==
    IF text = <<>> THEN <<>>
    ELSE IF Head(text) = " " THEN Pieces(Tail(text), TRUE)
    ELSE <<[sp |-> sp, ch |-> Head(text)]>> \o Pieces(Tail(text), FALSE)

tokenizer(text) == Pieces(text, TRUE)

RECURSIVE PieceText(_)
PieceText(tokens) ==
    IF tokens = <<>> THEN <<>>
    ELSE (IF Head(tokens).sp THEN <<" ">> ELSE <<>>)
         \o <<Head(tokens).ch>> \o PieceText(Tail(tokens))

\* sp.decode: the pieces' text, without the leading word-start marker.
decode(tokens) == lstrip(PieceText(tokens))

\* self.eos_tokens: the pieces of the sentence-ending punctuation.
eos_tokens == { t \in [sp : BOOLEAN, ch : Chars] : t.ch = "." }

\* ----------------------------------------------------------------- chunker

\* _ends_with_sentence_boundary that accepts an end-of-sentence token anywhere.
_ends_with_sentence_boundary_Anywhere(tokens) ==
    \E i \in 1..Len(tokens) : tokens[i] \in eos_tokens

_ends_with_sentence_boundary(tokens) ==
    IF tokens = <<>> THEN FALSE ELSE tokens[Len(tokens)] \in eos_tokens

\* The boundaries list of _find_best_split: every position after a run of
\* end-of-sentence tokens, and the end of the tokens when the last one is an
\* end-of-sentence token.  In increasing order.
RECURSIVE BoundariesFrom(_, _, _)
BoundariesFrom(tokens, i, prev_was_eos) ==
    IF i > Len(tokens)
    THEN IF tokens # <<>> /\ tokens[Len(tokens)] \in eos_tokens
         THEN <<Len(tokens)>> ELSE <<>>
    ELSE IF tokens[i] \in eos_tokens THEN BoundariesFrom(tokens, i + 1, TRUE)
    ELSE IF prev_was_eos THEN <<i - 1>> \o BoundariesFrom(tokens, i + 1, FALSE)
    ELSE BoundariesFrom(tokens, i + 1, FALSE)

Boundaries(tokens) == BoundariesFrom(tokens, 1, FALSE)

\* The loop over boundaries of _find_best_split, from boundary number k with
\* best_boundary = best.
RECURSIVE BestFrom(_, _, _)
BestFrom(boundaries, k, best) ==
    IF k > Len(boundaries) THEN best
    ELSE IF boundaries[k] <= max_tokens THEN BestFrom(boundaries, k + 1, boundaries[k])
    ELSE IF best = 0 THEN boundaries[k]
    ELSE best

\* _find_best_split without the split at max_tokens of a sequence that has
\* no sentence boundary.
_find_best_split_NoHardSplit(tokens, force_emit) ==
    LET boundaries == Boundaries(tokens) IN
    IF boundaries = <<>>
    THEN IF force_emit THEN Len(tokens) ELSE 0
    ELSE BestFrom(boundaries, 1, 0)

\* _find_best_split that takes the first boundary of the list, whichever side
\* of max_tokens it lies on.
_find_best_split_FirstBoundary(tokens, force_emit) ==
    LET boundaries == Boundaries(tokens) IN
    IF boundaries = <<>>
    THEN IF Len(tokens) >= max_tokens THEN max_tokens
         ELSE IF force_emit THEN Len(tokens) ELSE 0
    ELSE boundaries[1]

_find_best_split(tokens, force_emit) ==
    LET boundaries == Boundaries(tokens) IN
    IF boundaries = <<>>
    THEN IF Len(tokens) >= max_tokens THEN max_tokens
         ELSE IF force_emit THEN Len(tokens) ELSE 0
    ELSE BestFrom(boundaries, 1, 0)

\* _try_extract_chunk without the tests of min_tokens.
_try_extract_chunk_NoMin(buffer, force_emit) ==
    LET text == strip(buffer)
        tokens == tokenizer(text)
        num_tokens == Len(tokens)
        split_idx == _find_best_split(tokens, force_emit)
        whole == [chunk |-> text, buffer |-> <<>>]
        none == [chunk |-> None, buffer |-> buffer]
    IN
    IF text = <<>> THEN none
    ELSE IF num_tokens < max_tokens /\ ~force_emit
         THEN IF _ends_with_sentence_boundary(tokens) THEN whole ELSE none
    ELSE IF split_idx = 0 THEN (IF force_emit THEN whole ELSE none)
    ELSE [chunk |-> strip(decode(SubSeq(tokens, 1, split_idx))),
          buffer |-> decode(SubSeq(tokens, split_idx + 1, num_tokens))]

\* _try_extract_chunk on a buffer: the chunk (None when there is none) and
\* the buffer it leaves.
_try_extract_chunk(buffer, force_emit) ==
    LET text == strip(buffer)
        tokens == tokenizer(text)
        num_tokens == Len(tokens)
        split_idx == _find_best_split(tokens, force_emit)
        whole == [chunk |-> text, buffer |-> <<>>]
        none == [chunk |-> None, buffer |-> buffer]
    IN
    IF text = <<>> THEN none
    ELSE IF num_tokens < min_tokens /\ ~force_emit THEN none
    ELSE IF num_tokens < max_tokens /\ ~force_emit
         THEN IF num_tokens >= min_tokens /\ _ends_with_sentence_boundary(tokens)
              THEN whole ELSE none
    ELSE IF split_idx = 0 THEN (IF force_emit THEN whole ELSE none)
    ELSE [chunk |-> strip(decode(SubSeq(tokens, 1, split_idx))),
          buffer |-> decode(SubSeq(tokens, split_idx + 1, num_tokens))]

\* _extract_ready_chunks: the loop, from the chunks found so far.
RECURSIVE ExtractLoop(_, _, _)
ExtractLoop(buffer, force_emit, chunks) ==
    LET r == _try_extract_chunk(buffer, force_emit /\ chunks = <<>>) IN
    IF r.chunk = None THEN [chunks |-> chunks, buffer |-> buffer]
    ELSE ExtractLoop(r.buffer, force_emit, Append(chunks, r.chunk))

_extract_ready_chunks(buffer, force_emit) == ExtractLoop(buffer, force_emit, <<>>)

add_text(buffer, text) == _extract_ready_chunks(buffer \o text, FALSE)

\* flush without the last chunk made of what the loop has left.
flush_NoRemainder(buffer) ==
    IF strip(buffer) = <<>> THEN [chunks |-> <<>>, buffer |-> buffer]
    ELSE _extract_ready_chunks(buffer, TRUE)

flush(buffer) ==
    IF strip(buffer) = <<>> THEN [chunks |-> <<>>, buffer |-> buffer]
    ELSE LET r == _extract_ready_chunks(buffer, TRUE) IN
         IF strip(r.buffer) # <<>>
         THEN [chunks |-> Append(r.chunks, strip(r.buffer)), buffer |-> <<>>]
         ELSE r

\* ------------------------------------------------------------------- state

VARIABLES
    tts_model,          \* whether the global TTS model is loaded
    tts_queues,         \* the registry: the ids of the registered sessions
    allocated,          \* the ids create_tts_queue has handed out
    status,             \* TTSQueueState.status, per session
    error_message,      \* TTSQueueState.error_message
    text_queue,         \* TTSQueueState.text_queue: fragments and None markers
    end_signaled,       \* TTSQueueState.end_signaled
    audio_chunks,       \* TTSQueueState.audio_chunks
    chunks_delivered,   \* TTSQueueState.chunks_delivered
    task,               \* TTSQueueState.task: the worker, its position and locals
    cleanup_pending,    \* whether a cleanup() task of poll_tts_audio is sleeping
    queueIdRef,         \* the widget's queueIdRef
    isPollingRef,       \* the widget's isPollingRef
    allAudioReceivedRef, \* the widget's allAudioReceivedRef
    added,              \* how many fragments add_tts_text has queued
    last,               \* the last tool call and its response
    polled,             \* every chunk the polls have returned, in order
    endCalled,          \* end_tts_queue has answered "ended"
    cancelCalled,       \* cancel_tts_queue has answered "cancelled"
    sawErrorStatus,     \* the poll loop received a response with status "error"
    polledAfterError,   \* the poll loop polled again after such a response
    doneSeen,           \* the statuses of the first two poll responses with done
    cleanupFired,       \* a cleanup() task has popped the session
    acceptedChars,      \* how many characters add_tts_text has queued
    original,           \* the string a chunker on its own is fed
    cuts,               \* where the string is cut into fragments
    fed,                \* how many characters add_text has been given
    self_buffer,        \* StreamingTextChunker.buffer
    emitted,            \* the chunks returned so far, and the call of each
    flushed,            \* flush() has been called
    reflushed,          \* what a second flush() returned, once it was called
    split_tokens,       \* the tokens _find_best_split is called with on its own
    split_force,        \* its force_emit
    split_result,       \* what it returned, once it was called
    widgetStatus,       \* the widget's status: idle, playing, paused, finished
    audioContextRef,    \* which AudioContext audioContextRef holds, 0 for null
    ctxState,           \* its state: running or suspended ("none" without one)
    currentTime,        \* its currentTime
    nextPlayTimeRef,
    chunkTimingsRef,
    pendingChunksRef,
    progressIntervalRef, \* whether the progress timer is set
    audioOperationInProgressRef,
    lastTextRef,
    fullTextRef,
    sources,            \* the ends of the buffer sources whose onended is to come
    pollLoops,          \* the calls of startPolling in their loop
    initCall,           \* the call of initTTSQueue under way (initQueuePromiseRef)
    waiting,            \* the texts of the input handlers that await it
    toggleCalls,        \* the calls of togglePlayPause under way
    remote,             \* the sessions of the server, as the widget's calls left them
    created,            \* how many sessions create_tts_queue has made
    contexts,           \* how many AudioContexts were made
    arrivals,           \* how many chunks poll_tts_audio has returned
    inputsSeen,         \* how many tool-input events the host has sent
    timings,            \* the list getCharacterPosition is called over, on its own
    textRead,           \* the text roundToWordEnd reads
    playbackStartTimeRef,
    sampleTime,         \* the currentTime it was last called with
    charPosition        \* what setCharPosition was last given

server == <<tts_model, tts_queues, allocated, status, error_message, text_queue,
            end_signaled, audio_chunks, chunks_delivered, task, cleanup_pending>>

widget == <<queueIdRef, isPollingRef, allAudioReceivedRef>>

history == <<added, polled, endCalled, cancelCalled, sawErrorStatus, polledAfterError,
             doneSeen, cleanupFired, acceptedChars>>

chunker == <<original, cuts, fed, self_buffer, emitted, flushed, reflushed,
             split_tokens, split_force, split_result>>

player == <<widgetStatus, audioContextRef, ctxState, currentTime, nextPlayTimeRef,
            chunkTimingsRef, pendingChunksRef, progressIntervalRef,
            audioOperationInProgressRef, lastTextRef, fullTextRef, sources,
            pollLoops, initCall, waiting, toggleCalls, remote, created, contexts,
            arrivals, inputsSeen, timings, textRead, playbackStartTimeRef,
            sampleTime, charPosition>>

vars == <<server, widget, last, history, chunker, player>>

\* A task that does not exist yet.
NoTask ==
    [pc |-> "none", must_cancel |-> FALSE, fut |-> "none", exc |-> None,
     buffer |-> <<>>, chunk_index |-> 0, char_offset |-> 0,
     todo |-> <<>>, eof |-> FALSE]

\* A task whose coroutine has ended: its locals are gone.
Ended(pc) == [NoTask EXCEPT !.pc = pc]

\* A task is done once its coroutine has returned or was cancelled.
TaskDone(t) == t.pc \in {"returned", "failed", "cancelled"}

\* The response of a tool call; n (how many chunks), done and status are
\* those of a poll.
Response(op, q, res) ==
    [op |-> op, q |-> q, res |-> res, n |-> 0, done |-> FALSE, status |-> None]

\* No tool call: a step of a worker, of a timer or of the executor.
Internal == Response("none", None, None)

\* No call under way; no answer.
NoCall == [pc |-> "none", ctx |-> 0, st |-> None, text |-> <<>>, answer |-> None]
NoAnswer == [error |-> FALSE, chunks |-> <<>>, done |-> FALSE]

\* No call of getCharacterPosition on its own.
SamplerIdle ==
    /\ timings = <<>>
    /\ textRead = <<>>
    /\ playbackStartTimeRef = 0
    /\ sampleTime = 0
    /\ charPosition = 0

\* The widget before any event.
PlayerIdle ==
    /\ widgetStatus = "idle"
    /\ audioContextRef = 0
    /\ ctxState = "none"
    /\ currentTime = 0
    /\ nextPlayTimeRef = 0
    /\ chunkTimingsRef = <<>>
    /\ pendingChunksRef = <<>>
    /\ progressIntervalRef = FALSE
    /\ audioOperationInProgressRef = FALSE
    /\ lastTextRef = <<>>
    /\ fullTextRef = <<>>
    /\ sources = {}
    /\ pollLoops = <<>>
    /\ initCall = NoCall
    /\ waiting = <<>>
    /\ toggleCalls = <<>>
    /\ remote = [q \in {} |-> None]
    /\ created = 0
    /\ contexts = 0
    /\ arrivals = 0
    /\ inputsSeen = 0
    /\ SamplerIdle

\* No call of _find_best_split on its own.
SplitIdle ==
    /\ split_tokens = <<>>
    /\ split_force = FALSE
    /\ split_result = <<>>

\* No chunker on its own.
ChunkerIdle ==
    /\ original = <<>>
    /\ cuts = {}
    /\ fed = 0
    /\ self_buffer = <<>>
    /\ emitted = <<>>
    /\ flushed = FALSE
    /\ reflushed = <<>>
    /\ SplitIdle

\* The server before any call, the widget before any event.
ServerInit ==
    /\ tts_model = FALSE
    /\ tts_queues = {}
    /\ allocated = {}
    /\ status = [q \in AllIds |-> "active"]
    /\ error_message = [q \in AllIds |-> None]
    /\ text_queue = [q \in AllIds |-> <<>>]
    /\ end_signaled = [q \in AllIds |-> FALSE]
    /\ audio_chunks = [q \in AllIds |-> <<>>]
    /\ chunks_delivered = [q \in AllIds |-> 0]
    /\ task = [q \in AllIds |-> NoTask]
    /\ cleanup_pending = [q \in AllIds |-> FALSE]
    /\ queueIdRef = None
    /\ isPollingRef = FALSE
    /\ allAudioReceivedRef = FALSE
    /\ added = [q \in AllIds |-> 0]
    /\ last = Internal
    /\ polled = [q \in AllIds |-> <<>>]
    /\ endCalled = [q \in AllIds |-> FALSE]
    /\ cancelCalled = [q \in AllIds |-> FALSE]
    /\ sawErrorStatus = FALSE
    /\ polledAfterError = FALSE
    /\ doneSeen = [q \in AllIds |-> <<>>]
    /\ cleanupFired = [q \in AllIds |-> FALSE]
    /\ acceptedChars = [q \in AllIds |-> 0]

Init == ServerInit /\ ChunkerIdle /\ PlayerIdle

\* ------------------------------------------------------------------- tools

load_tts_model ==
    /\ ~tts_model
    /\ tts_model' = TRUE
    /\ last' = Internal
    /\ UNCHANGED <<tts_queues, allocated, status, error_message, text_queue,
                   end_signaled, audio_chunks, chunks_delivered, task,
                   cleanup_pending, widget, chunker, player, history>>

\* uuid4: an id no session has had.
FreshId == CHOOSE q \in SessionIds \ allocated : TRUE

\* CreateHandler that starts no task.
CreateHandler_NoTask(q) ==
    /\ allocated' = allocated \cup {q}
    /\ tts_queues' = tts_queues \cup {q}
    /\ last' = Response("create", q, "created")
    /\ UNCHANGED <<tts_model, status, error_message, text_queue, end_signaled,
                   audio_chunks, chunks_delivered, task, cleanup_pending, history>>

\* create_tts_queue with the model loaded: the session it registers and the
\* task it starts.
CreateHandler(q) ==
    /\ allocated' = allocated \cup {q}
    /\ tts_queues' = tts_queues \cup {q}
    /\ task' = [task EXCEPT ![q] = [NoTask EXCEPT !.pc = "start"]]
    /\ last' = Response("create", q, "created")
    /\ UNCHANGED <<tts_model, status, error_message, text_queue, end_signaled,
                   audio_chunks, chunks_delivered, cleanup_pending, history>>

create_tts_queue ==
    IF ~tts_model
    THEN /\ last' = Response("create", None, "TTS model not loaded")
         /\ UNCHANGED <<server, widget, chunker, player, history>>
    ELSE /\ allocated # SessionIds
         /\ CreateHandler(FreshId)
         /\ UNCHANGED <<widget, chunker, player>>

\* AddRefused that never refuses.
AddRefused_Never(q) == FALSE

\* The end_signaled test of add_tts_text.
AddRefused(q) == end_signaled[q]

add_tts_text(q, text) ==
    IF q \notin tts_queues
    THEN /\ last' = Response("add", q, "Queue not found")
         /\ UNCHANGED <<server, widget, chunker, player, history>>
    ELSE IF AddRefused(q)
    THEN /\ last' = Response("add", q, "Queue already ended")
         /\ UNCHANGED <<server, widget, chunker, player, history>>
    ELSE /\ added[q] < MaxAdds
         /\ text_queue' = [text_queue EXCEPT ![q] = Append(@, text)]
         /\ added' = [added EXCEPT ![q] = @ + 1]
         /\ acceptedChars' = [acceptedChars EXCEPT ![q] = @ + Len(text)]
         /\ last' = Response("add", q, "queued")
         /\ UNCHANGED <<tts_model, tts_queues, allocated, status, error_message,
                        end_signaled, audio_chunks, chunks_delivered, task,
                        cleanup_pending, widget, chunker, player, polled, endCalled, cancelCalled,
                        sawErrorStatus, polledAfterError, doneSeen, cleanupFired>>

\* EndRepeated that never sees the flag.
EndRepeated_Never(q) == FALSE

\* The end_signaled test of end_tts_queue.
EndRepeated(q) == end_signaled[q]

end_tts_queue(q) ==
    IF q \notin tts_queues
    THEN /\ last' = Response("end", q, "Queue not found")
         /\ UNCHANGED <<server, widget, chunker, player, history>>
    ELSE IF EndRepeated(q)
    THEN /\ last' = Response("end", q, "already_ended")
         /\ UNCHANGED <<server, widget, chunker, player, history>>
    ELSE /\ end_signaled' = [end_signaled EXCEPT ![q] = TRUE]
         /\ text_queue' = [text_queue EXCEPT ![q] = Append(@, EndOfText)]
         /\ endCalled' = [endCalled EXCEPT ![q] = TRUE]
         /\ last' = Response("end", q, "ended")
         /\ UNCHANGED <<tts_model, tts_queues, allocated, status, error_message,
                        audio_chunks, chunks_delivered, task, cleanup_pending,
                        widget, chunker, player, added, polled, cancelCalled, sawErrorStatus,
                        polledAfterError, doneSeen, cleanupFired, acceptedChars>>

\* TaskCancel that requests nothing.
TaskCancel_Forgets(t) == t

\* Task.cancel() on a task that is not done: the CancelledError is thrown
\* into the coroutine at the await it is suspended in, when the task next
\* runs.
TaskCancel(t) == [t EXCEPT !.must_cancel = TRUE]

\* CancelRegistry that leaves the session registered.
CancelRegistry_Keeps(q) == tts_queues

\* CancelRegistry that empties the registry.
CancelRegistry_Clears(q) == {}

\* tts_queues.pop(queue_id, None) of cancel_tts_queue.
CancelRegistry(q) == tts_queues \ {q}

\* The status cancel_tts_queue leaves.
CancelStatus(st) == "complete"

cancel_tts_queue(q) ==
    IF q \notin tts_queues
    THEN /\ last' = Response("cancel", q, "Queue not found")
         /\ UNCHANGED <<server, widget, chunker, player, history>>
    ELSE /\ tts_queues' = CancelRegistry(q)
         /\ task' = [task EXCEPT ![q] = IF ~TaskDone(@) THEN TaskCancel(@) ELSE @]
         /\ end_signaled' = [end_signaled EXCEPT ![q] = TRUE]
         /\ text_queue' = [text_queue EXCEPT ![q] = Append(@, EndOfText)]
         /\ status' = [status EXCEPT ![q] = CancelStatus(@)]
         /\ cancelCalled' = [cancelCalled EXCEPT ![q] = TRUE]
         /\ last' = Response("cancel", q, "cancelled")
         /\ UNCHANGED <<tts_model, allocated, error_message, audio_chunks,
                        chunks_delivered, cleanup_pending, widget, chunker, player, added, polled,
                        endCalled, sawErrorStatus, polledAfterError, doneSeen,
                        cleanupFired, acceptedChars>>

\* PollDone that never says done.
PollDone_Never(st, delivered, chunks) == FALSE

\* The done flag poll_tts_audio computes, after it has advanced the cursor.
PollDone(st, delivered, chunks) == st = "complete" /\ delivered >= Len(chunks)

\* PollCursor that leaves the newest chunk undelivered.
PollCursor_OneShort(delivered, chunks) ==
    IF Len(chunks) > delivered THEN Len(chunks) - 1 ELSE delivered

\* PollCursor that counts one chunk more than there are.
PollCursor_Overshoots(delivered, chunks) == Len(chunks) + 1

\* The cursor after a poll.
PollCursor(delivered, chunks) == Len(chunks)

\* PollRegistry that pops the session at once, without the sleep of cleanup().
PollRegistry_PopsNow(q, done) == IF done THEN tts_queues \ {q} ELSE tts_queues

\* The registry after a poll: poll_tts_audio removes nothing itself, it
\* leaves the removal to the cleanup() task.
PollRegistry(q, done) == tts_queues

\* poll_tts_audio on a registered session: what it changes on the server, and
\* its response.  Every poll that computes done starts a cleanup() task; the
\* tasks all pop the same id, so one flag stands for them.
PollHandler(q) ==
    LET new_chunks == SubSeq(audio_chunks[q], chunks_delivered[q] + 1, Len(audio_chunks[q]))
        delivered == PollCursor(chunks_delivered[q], audio_chunks[q])
        done == PollDone(status[q], delivered, audio_chunks[q])
    IN
    /\ chunks_delivered' = [chunks_delivered EXCEPT ![q] = delivered]
    /\ tts_queues' = PollRegistry(q, done)
    /\ polled' = [polled EXCEPT ![q] = @ \o new_chunks]
    /\ cleanup_pending' = [cleanup_pending EXCEPT ![q] = @ \/ done]
    /\ doneSeen' = [doneSeen EXCEPT ![q] =
                        IF done /\ Len(@) < 2 THEN Append(@, status[q]) ELSE @]
    /\ last' = [Response("poll", q, "ok") EXCEPT
                    !.n = Len(new_chunks), !.done = done, !.status = status[q]]
    /\ UNCHANGED <<tts_model, allocated, status, error_message,
                   text_queue, end_signaled, audio_chunks, task, added,
                   endCalled, cancelCalled, cleanupFired, acceptedChars>>

poll_tts_audio(q) ==
    IF q \notin tts_queues
    THEN /\ last' = Response("poll", q, "Queue not found")
         /\ UNCHANGED <<server, widget, chunker, player, history>>
    ELSE /\ PollHandler(q)
         /\ UNCHANGED <<widget, chunker, player, sawErrorStatus, polledAfterError>>

\* The cleanup() task of poll_tts_audio, after its sleep.
cleanup(q) ==
    /\ cleanup_pending[q]
    /\ cleanup_pending' = [cleanup_pending EXCEPT ![q] = FALSE]
    /\ tts_queues' = tts_queues \ {q}
    /\ cleanupFired' = [cleanupFired EXCEPT ![q] = TRUE]
    /\ last' = Internal
    /\ UNCHANGED <<tts_model, allocated, status, error_message, text_queue,
                   end_signaled, audio_chunks, chunks_delivered, task, widget, chunker, player,
                   added, polled, endCalled, cancelCalled, sawErrorStatus,
                   polledAfterError, doneSeen, acceptedChars>>

\* ------------------------------------------------------------------ worker

\* The while loop of _run_tts_queue from its top, run until the coroutine
\* suspends (text_queue.get() on an empty queue, or the executor call of
\* _process_tts_chunk for the first chunk) or returns.  text_queue.get() on
\* a queue that holds an item does not suspend.
RECURSIVE RunLoop(_, _)
RunLoop(t, queue) ==
    IF queue = <<>>
    THEN [task |-> [t EXCEPT !.pc = "get"], queue |-> queue, complete |-> FALSE]
    ELSE IF Head(queue) = EndOfText
    THEN LET remaining == flush(t.buffer) IN
         IF remaining.chunks = <<>>
         THEN [task |-> Ended("returned"), queue |-> Tail(queue), complete |-> TRUE]
         ELSE [task |-> [t EXCEPT !.pc = "synth", !.fut = "pending",
                                  !.buffer = remaining.buffer,
                                  !.todo = remaining.chunks, !.eof = TRUE],
               queue |-> Tail(queue), complete |-> FALSE]
    ELSE LET ready == add_text(t.buffer, Head(queue)) IN
         IF ready.chunks = <<>>
         THEN RunLoop([t EXCEPT !.buffer = ready.buffer], Tail(queue))
         ELSE [task |-> [t EXCEPT !.pc = "synth", !.fut = "pending",
                                  !.buffer = ready.buffer,
                                  !.todo = ready.chunks, !.eof = FALSE],
               queue |-> Tail(queue), complete |-> FALSE]

\* The worker runs the loop from its top.
EnterLoop(q, t) ==
    LET r == RunLoop(t, text_queue[q]) IN
    /\ task' = [task EXCEPT ![q] = r.task]
    /\ text_queue' = [text_queue EXCEPT ![q] = r.queue]
    /\ status' = [status EXCEPT ![q] = IF r.complete THEN "complete" ELSE @]

\* The first step of the task create_tts_queue made.
WorkerStart(q) ==
    /\ task[q].pc = "start"
    /\ ~task[q].must_cancel
    /\ IF ~tts_model
       THEN /\ status' = [status EXCEPT ![q] = "error"]
            /\ error_message' = [error_message EXCEPT ![q] = "TTS model not loaded"]
            /\ task' = [task EXCEPT ![q] = Ended("failed")]
            /\ UNCHANGED text_queue
       ELSE /\ EnterLoop(q, task[q])
            /\ UNCHANGED error_message
    /\ last' = Internal
    /\ UNCHANGED <<tts_model, tts_queues, allocated, end_signaled, audio_chunks,
                   chunks_delivered, cleanup_pending, widget, chunker, player, history>>

\* text_queue.get() returns to the suspended worker.
WorkerGet(q) ==
    /\ task[q].pc = "get"
    /\ ~task[q].must_cancel
    /\ text_queue[q] # <<>>
    /\ EnterLoop(q, task[q])
    /\ last' = Internal
    /\ UNCHANGED <<tts_model, tts_queues, allocated, error_message, end_signaled,
                   audio_chunks, chunks_delivered, cleanup_pending, widget, chunker, player, history>>

\* generate_sync returns in the executor thread.
SynthReturn(q) ==
    /\ task[q].pc = "synth"
    /\ task[q].fut = "pending"
    /\ task' = [task EXCEPT ![q].fut = "ok"]
    /\ last' = Internal
    /\ UNCHANGED <<tts_model, tts_queues, allocated, status, error_message,
                   text_queue, end_signaled, audio_chunks, chunks_delivered,
                   cleanup_pending, widget, chunker, player, history>>

\* generate_sync raises in the executor thread.
SynthRaise(q, e) ==
    /\ task[q].pc = "synth"
    /\ task[q].fut = "pending"
    /\ task' = [task EXCEPT ![q].fut = "raise", ![q].exc = e]
    /\ last' = Internal
    /\ UNCHANGED <<tts_model, tts_queues, allocated, status, error_message,
                   text_queue, end_signaled, audio_chunks, chunks_delivered,
                   cleanup_pending, widget, chunker, player, history>>

\* The AudioChunkData _process_tts_chunk builds for a text.
AudioChunkData(text, chunk_index, char_offset) ==
    [index |-> chunk_index, char_start |-> char_offset,
     char_end |-> char_offset + Len(text)]

\* AfterChunk without "char_offset += len(chunk_text)".
AfterChunk_KeepsOffset(t) ==
    [t EXCEPT !.chunk_index = @ + 1, !.todo = Tail(@), !.fut = "none"]

\* The locals of _run_tts_queue after one chunk was processed.
AfterChunk(t) ==
    [t EXCEPT !.char_offset = @ + Len(Head(t.todo)),
              !.chunk_index = @ + 1,
              !.todo = Tail(@),
              !.fut = "none"]

\* OnException that drops the message.
OnException_NoMessage(q, e) ==
    /\ status' = [status EXCEPT ![q] = "error"]
    /\ task' = [task EXCEPT ![q] = Ended("failed")]
    /\ UNCHANGED <<error_message, audio_chunks, text_queue>>

\* The except clause of _run_tts_queue.
OnException(q, e) ==
    /\ status' = [status EXCEPT ![q] = "error"]
    /\ error_message' = [error_message EXCEPT ![q] = e]
    /\ task' = [task EXCEPT ![q] = Ended("failed")]
    /\ UNCHANGED <<audio_chunks, text_queue>>

\* The worker resumes after the executor call: the exception reaches the
\* except clause of _run_tts_queue, or the chunk is appended and the for loop
\* goes on (the next executor call, the end of the flush, or the while loop).
WorkerResume(q) ==
    /\ task[q].pc = "synth"
    /\ task[q].fut \in {"ok", "raise"}
    /\ ~task[q].must_cancel
    /\ IF task[q].fut = "raise"
       THEN OnException(q, task[q].exc)
       ELSE LET t == AfterChunk(task[q]) IN
            /\ audio_chunks' = [audio_chunks EXCEPT ![q] =
                   Append(@, AudioChunkData(Head(task[q].todo), task[q].chunk_index,
                                            task[q].char_offset))]
            /\ IF t.todo # <<>>
               THEN /\ task' = [task EXCEPT ![q] = [t EXCEPT !.fut = "pending"]]
                    /\ UNCHANGED <<status, text_queue>>
               ELSE IF t.eof
               THEN /\ task' = [task EXCEPT ![q] = Ended("returned")]
                    /\ status' = [status EXCEPT ![q] = "complete"]
                    /\ UNCHANGED text_queue
               ELSE EnterLoop(q, t)
            /\ UNCHANGED error_message
    /\ last' = Internal
    /\ UNCHANGED <<tts_model, tts_queues, allocated, end_signaled,
                   chunks_delivered, cleanup_pending, widget, chunker, player, history>>

\* The cancelled task runs: CancelledError is raised at its await.  It is
\* no Exception, so the except clause of _run_tts_queue does not catch it.
WorkerCancelled(q) ==
    /\ ~TaskDone(task[q])
    /\ task[q].must_cancel
    /\ task' = [task EXCEPT ![q] = Ended("cancelled")]
    /\ last' = Internal
    /\ UNCHANGED <<tts_model, tts_queues, allocated, status, error_message,
                   text_queue, end_signaled, audio_chunks, chunks_delivered,
                   cleanup_pending, widget, chunker, player, history>>

\* ------------------------------------------------------------------ widget

\* initTTSQueue of the widget: create_tts_queue, and on its answer the id is
\* kept and startPolling sets the loop going.
initTTSQueue ==
    /\ queueIdRef = None
    /\ tts_model
    /\ allocated # SessionIds
    /\ CreateHandler(FreshId)
    /\ queueIdRef' = FreshId
    /\ isPollingRef' = TRUE
    /\ UNCHANGED <<allAudioReceivedRef, chunker, player>>

\* Whether the loop of startPolling goes on after a response that is no error.
KeepPolling(done, st) == ~done

\* One turn of the while loop of startPolling: the poll and its response.
startPolling ==
    /\ isPollingRef
    /\ UNCHANGED <<chunker, player>>
    /\ queueIdRef # None
    /\ polledAfterError' = (polledAfterError \/ sawErrorStatus)
    /\ IF queueIdRef \notin tts_queues
       THEN /\ last' = Response("poll", queueIdRef, "Queue not found")
            /\ isPollingRef' = FALSE
            /\ UNCHANGED <<server, queueIdRef, allAudioReceivedRef, added, polled,
                           endCalled, cancelCalled, sawErrorStatus, doneSeen,
                           cleanupFired, acceptedChars>>
       ELSE /\ PollHandler(queueIdRef)
            /\ sawErrorStatus' = (sawErrorStatus \/ status[queueIdRef] = "error")
            /\ allAudioReceivedRef' = (allAudioReceivedRef \/ last'.done)
            /\ isPollingRef' = KeepPolling(last'.done, last'.status)
            /\ UNCHANGED queueIdRef

\* -------------------------------------------------------------------- spec

Next ==
    \/ load_tts_model
    \/ create_tts_queue
    \/ \E q \in QueueIds : \E text \in Fragments : add_tts_text(q, text)
    \/ \E q \in QueueIds : end_tts_queue(q)
    \/ \E q \in QueueIds : cancel_tts_queue(q)
    \/ \E q \in QueueIds : poll_tts_audio(q)
    \/ \E q \in QueueIds : cleanup(q)
    \/ \E q \in QueueIds : WorkerStart(q)
    \/ \E q \in QueueIds : WorkerGet(q)
    \/ \E q \in QueueIds : SynthReturn(q)
    \/ \E q \in QueueIds : \E e \in ErrorTexts : SynthRaise(q, e)
    \/ \E q \in QueueIds : WorkerResume(q)
    \/ \E q \in QueueIds : WorkerCancelled(q)
    \/ initTTSQueue
    \/ startPolling

Spec == Init /\ [][Next]_vars

\* ------------------------------------------------- two sessions side by side
\* create_tts_queue while there is an id of the pair left.
create_tts_queue_pair ==
    IF ~tts_model
    THEN /\ last' = Response("create", None, "TTS model not loaded")
         /\ UNCHANGED <<server, widget, chunker, player, history>>
    ELSE /\ allocated # PairIds
         /\ CreateHandler(CHOOSE q \in PairIds \ allocated : TRUE)
         /\ UNCHANGED <<widget, chunker, player>>

\* The fragments the two sessions are sent.
PairFragments == { <<"a", ".">> }

PairNext ==
    \/ load_tts_model
    \/ create_tts_queue_pair
    \/ \E q \in PairIds : \E text \in PairFragments :
          add_tts_text(q, text) /\ added'[q] <= MaxPairAdds
    \/ \E q \in PairIds : end_tts_queue(q)
    \/ \E q \in PairIds : cancel_tts_queue(q)
    \/ \E q \in PairIds : poll_tts_audio(q)
    \/ \E q \in PairIds : cleanup(q)
    \/ \E q \in PairIds : WorkerStart(q)
    \/ \E q \in PairIds : WorkerGet(q)
    \/ \E q \in PairIds : SynthReturn(q)
    \/ \E q \in PairIds : \E e \in ErrorTexts : SynthRaise(q, e)
    \/ \E q \in PairIds : WorkerResume(q)
    \/ \E q \in PairIds : WorkerCancelled(q)

PairSpec == Init /\ [][PairNext]_vars

\* The scheduling the cleanup rests on: the event loop runs the cleanup()
\* task when its sleep is over, and the callers keep polling.
Fairness ==
    /\ WF_vars(startPolling)
    /\ \A q \in SessionIds :
        /\ WF_vars(poll_tts_audio(q))
        /\ WF_vars(cleanup(q))

FairSpec == Spec /\ Fairness

\* The steps of the worker task of a session and of the executor thread that
\* runs its synthesis calls.
Worker(q) ==
    \/ WorkerStart(q)
    \/ WorkerGet(q)
    \/ SynthReturn(q)
    \/ \E e \in ErrorTexts : SynthRaise(q, e)
    \/ WorkerResume(q)
    \/ WorkerCancelled(q)

\* Whether a step of Worker(q) can be taken: the conditions of its steps.
WorkerReady(q) ==
    \/ task[q].pc = "start" /\ ~task[q].must_cancel
    \/ task[q].pc = "get" /\ ~task[q].must_cancel /\ text_queue[q] # <<>>
    \/ task[q].pc = "synth" /\ task[q].fut = "pending"
    \/ task[q].pc = "synth" /\ task[q].fut \in {"ok", "raise"} /\ ~task[q].must_cancel
    \/ ~TaskDone(task[q]) /\ task[q].must_cancel

\* The scheduling completion rests on: the event loop runs a task that is
\* ready, the executor call returns or raises, and the client keeps polling.
\* The first conjunct is the weak fairness of Worker(q) written out with
\* WorkerReady(q) for ENABLED <<Worker(q)>>_vars.
WorkerFairness ==
    \A q \in SessionIds :
        /\ []<>(~WorkerReady(q)) \/ []<><<Worker(q)>>_vars
        /\ WF_vars(poll_tts_audio(q))

WorkerFairSpec == Spec /\ WorkerFairness

\* ------------------------------------------------- the chunker on its own
\* A StreamingTextChunker is given a string in fragments, one add_text call
\* per fragment, and then flush(), as _run_tts_queue does for the texts of a
\* session.

\* The strings of at most MaxLen characters.
Strings == UNION { [1..n -> Chars] : n \in 0..MaxLen }

\* The token counts of the buffer at each chunk _extract_ready_chunks takes
\* from it.
RECURSIVE HeldLoop(_, _, _)
HeldLoop(buffer, force_emit, held) ==
    LET r == _try_extract_chunk(buffer, force_emit /\ held = <<>>) IN
    IF r.chunk = None THEN held
    ELSE HeldLoop(r.buffer, force_emit,
                  Append(held, Len(tokenizer(strip(buffer)))))

\* The records of the chunks a call has returned.
Emitted(chunks, held, call) ==
    [i \in 1..Len(chunks) |->
        [text |-> chunks[i], call |-> call,
         held |-> IF i <= Len(held) THEN held[i]
                                    ELSE Len(tokenizer(chunks[i]))]]

ChunkerInit ==
    /\ ServerInit
    /\ PlayerIdle
    /\ original \in Strings
    /\ cuts \in SUBSET (1..(Len(original) - 1))
    /\ fed = 0
    /\ self_buffer = <<>>
    /\ emitted = <<>>
    /\ flushed = FALSE
    /\ reflushed = <<>>
    /\ SplitIdle

\* Where the fragment that starts after fed characters ends.
FragmentEnd ==
    CHOOSE n \in (cuts \cup {Len(original)}) :
        /\ n > fed
        /\ \A m \in (cuts \cup {Len(original)}) : m > fed => n <= m

\* chunker.add_text(fragment), for the next fragment of the string.
AddTextCall ==
    /\ ~flushed
    /\ fed < Len(original)
    /\ LET text == SubSeq(original, fed + 1, FragmentEnd)
           r == add_text(self_buffer, text)
           held == HeldLoop(self_buffer \o text, FALSE, <<>>)
       IN
       /\ self_buffer' = r.buffer
       /\ emitted' = emitted \o Emitted(r.chunks, held, "add_text")
    /\ fed' = FragmentEnd
    /\ UNCHANGED <<original, cuts, flushed, reflushed, split_tokens, split_force,
                   split_result, server, widget, last, history, player>>

\* chunker.flush(), after the last fragment.
FlushCall ==
    /\ ~flushed
    /\ fed = Len(original)
    /\ LET r == flush(self_buffer)
           held == IF strip(self_buffer) = <<>> THEN <<>>
                   ELSE HeldLoop(self_buffer, TRUE, <<>>)
       IN
       /\ self_buffer' = r.buffer
       /\ emitted' = emitted \o Emitted(r.chunks, held, "flush")
    /\ flushed' = TRUE
    /\ UNCHANGED <<original, cuts, fed, reflushed, split_tokens, split_force,
                   split_result, server, widget, last, history, player>>

\* chunker.flush() once more, right after flush().
FlushAgain ==
    /\ flushed
    /\ reflushed = <<>>
    /\ LET r == flush(self_buffer) IN
       /\ self_buffer' = r.buffer
       /\ reflushed' = <<r.chunks>>
    /\ UNCHANGED <<original, cuts, fed, emitted, flushed, split_tokens, split_force,
                   split_result, server, widget, last, history, player>>

ChunkerNext ==
    \/ AddTextCall
    \/ FlushCall
    \/ FlushAgain

ChunkerSpec == ChunkerInit /\ [][ChunkerNext]_vars

\* ------------------------------------------- _find_best_split on its own
\* The token sequences of up to MaxTokenLen letters and full stops, with or
\* without the word-start marker.
Tokens == [sp : BOOLEAN, ch : {"a", "."}]

TokenSeqs == UNION { [1..n -> Tokens] : n \in 0..MaxTokenLen }

SplitInit ==
    /\ ServerInit
    /\ PlayerIdle
    /\ original = <<>>
    /\ cuts = {}
    /\ fed = 0
    /\ self_buffer = <<>>
    /\ emitted = <<>>
    /\ flushed = FALSE
    /\ reflushed = <<>>
    /\ split_tokens \in TokenSeqs
    /\ split_force \in BOOLEAN
    /\ split_result = <<>>

\* self._find_best_split(tokens, force_emit)
FindBestSplitCall ==
    /\ split_result = <<>>
    /\ split_result' = <<_find_best_split(split_tokens, split_force)>>
    /\ UNCHANGED <<original, cuts, fed, self_buffer, emitted, flushed, reflushed,
                   split_tokens, split_force, server, widget, last, history, player>>

SplitNext == FindBestSplitCall

SplitSpec == SplitInit /\ [][SplitNext]_vars

\* ---------------------------------------------------- the widget on its own
\* The widget's playback: the poll loops, the scheduling of the chunks on the
\* AudioContext, togglePlayPause, restartPlayback and the tool-input
\* handlers.  Each step is what one handler runs between two awaits that
\* wait for the outside (a tool call's answer, a timer, the AudioContext);
\* an await of something already settled does not let another handler in.
\* The server is what the widget's calls make of it: a request is handled
\* when it is sent, its answer travels back as a step of its own.

\* The ids create_tts_queue answers with, in the order it makes them.
Ids == <<"q1", "q2", "q3", "q4">>

\* The texts the host sends as the tool's input.
Texts == { <<"a">>, <<"a", "b">>, <<"c">> }

\* The durations of the audio of a chunk.
Durations == {1, 2}

Max(a, b) == IF a >= b THEN a ELSE b

\* text.startsWith(prefix).
startsWith(text, prefix) ==
    Len(prefix) <= Len(text) /\ SubSeq(text, 1, Len(prefix)) = prefix

\* A sequence without its i-th element.
Remove(seq, i) == SubSeq(seq, 1, i - 1) \o SubSeq(seq, i + 1, Len(seq))

\* The widget's refs and state, and the server's sessions, as one record.
Cur ==
    [queueIdRef |-> queueIdRef, isPollingRef |-> isPollingRef,
     allAudioReceivedRef |-> allAudioReceivedRef, widgetStatus |-> widgetStatus,
     audioContextRef |-> audioContextRef, ctxState |-> ctxState,
     currentTime |-> currentTime, nextPlayTimeRef |-> nextPlayTimeRef,
     chunkTimingsRef |-> chunkTimingsRef, pendingChunksRef |-> pendingChunksRef,
     progressIntervalRef |-> progressIntervalRef,
     audioOperationInProgressRef |-> audioOperationInProgressRef,
     lastTextRef |-> lastTextRef, fullTextRef |-> fullTextRef, sources |-> sources,
     pollLoops |-> pollLoops, initCall |-> initCall, waiting |-> waiting,
     toggleCalls |-> toggleCalls, remote |-> remote, created |-> created,
     contexts |-> contexts, arrivals |-> arrivals, inputsSeen |-> inputsSeen]

\* The step leaves the widget and the server's sessions as the record says.
Becomes(w) ==
    /\ queueIdRef' = w.queueIdRef
    /\ isPollingRef' = w.isPollingRef
    /\ allAudioReceivedRef' = w.allAudioReceivedRef
    /\ widgetStatus' = w.widgetStatus
    /\ audioContextRef' = w.audioContextRef
    /\ ctxState' = w.ctxState
    /\ currentTime' = w.currentTime
    /\ nextPlayTimeRef' = w.nextPlayTimeRef
    /\ chunkTimingsRef' = w.chunkTimingsRef
    /\ pendingChunksRef' = w.pendingChunksRef
    /\ progressIntervalRef' = w.progressIntervalRef
    /\ audioOperationInProgressRef' = w.audioOperationInProgressRef
    /\ lastTextRef' = w.lastTextRef
    /\ fullTextRef' = w.fullTextRef
    /\ sources' = w.sources
    /\ pollLoops' = w.pollLoops
    /\ initCall' = w.initCall
    /\ waiting' = w.waiting
    /\ toggleCalls' = w.toggleCalls
    /\ remote' = w.remote
    /\ created' = w.created
    /\ contexts' = w.contexts
    /\ arrivals' = w.arrivals
    /\ inputsSeen' = w.inputsSeen
    /\ UNCHANGED <<server, last, history, chunker, timings, textRead,
                   playbackStartTimeRef, sampleTime, charPosition>>

\* --------------------------------------------- the server, seen from the widget

\* The poll responses with chunks of session q: at most MaxPerPoll chunks,
\* and no more than MaxChunks in all.
ChunkLists(w, q) ==
    UNION { [1..n -> [q : {q}, dur : Durations]] :
                n \in 0..(IF MaxChunks - w.arrivals < MaxPerPoll
                          THEN MaxChunks - w.arrivals ELSE MaxPerPoll) }

\* What poll_tts_audio may answer for session q: "Queue not found" once it
\* was cancelled or cleaned up; chunks only once text was added; done only
\* once the session was ended, and after done no chunk any more.
PollAnswers(w, q) ==
    LET r == w.remote[q]
        error == [NoAnswer EXCEPT !.error = TRUE]
    IN
    IF r.st = "cancelled" THEN {error}
    ELSE IF r.st = "done" THEN {error, [NoAnswer EXCEPT !.done = TRUE]}
    ELSE { [error |-> FALSE, chunks |-> c, done |-> d] :
              c \in (IF r.text # <<>> THEN ChunkLists(w, q) ELSE {<<>>}),
              d \in (IF r.st = "ended" THEN BOOLEAN ELSE {FALSE}) }

\* poll_tts_audio answers ans for session q.
pollArrives(w, q, ans) ==
    [w EXCEPT !.remote[q].st = IF ans.done THEN "done" ELSE @,
              !.arrivals = @ + Len(ans.chunks)]

\* create_tts_queue: the id it answers with, None when the model is not loaded.
createArrives(w, ok) ==
    IF ok
    THEN [w EXCEPT !.created = @ + 1,
                   !.remote = [q \in (DOMAIN @) \cup {Ids[w.created + 1]} |->
                                  IF q \in DOMAIN @ THEN @[q]
                                  ELSE [st |-> "open", text |-> <<>>]]]
    ELSE w

CreateAnswer(w, ok) == IF ok THEN Ids[w.created + 1] ELSE None

\* Whether create_tts_queue may succeed, or fail: no more than
\* MaxTurnSessions sessions are made.
CreateOutcomes(w) == IF w.created < MaxTurnSessions THEN BOOLEAN ELSE {FALSE}

\* add_tts_text, end_tts_queue and cancel_tts_queue for id q (None when the
\* widget passes a null id); the widget reads none of their answers.
addArrives(w, q, text) ==
    IF q # None /\ w.remote[q].st = "open"
    THEN [w EXCEPT !.remote[q].text = Append(@, text)]
    ELSE w

endArrives(w, q) ==
    IF q # None /\ w.remote[q].st = "open" THEN [w EXCEPT !.remote[q].st = "ended"]
    ELSE w

cancelArrives(w, q) ==
    IF q # None THEN [w EXCEPT !.remote[q].st = "cancelled"] ELSE w

\* ------------------------------------------------------------------ playback

finishPlayback(w) ==
    [w EXCEPT !.widgetStatus = "finished", !.progressIntervalRef = FALSE]

\* MayFinish without the test of allAudioReceivedRef.
MayFinish_NoDone(w) == w.currentTime >= w.nextPlayTimeRef - FinishTolerance

\* The test of the progress timer, and the last two of onended.
MayFinish(w) ==
    /\ w.allAudioReceivedRef
    /\ w.currentTime >= w.nextPlayTimeRef - FinishTolerance

startProgressTracking(w) == [w EXCEPT !.progressIntervalRef = TRUE]

\* StartTime that starts every buffer at once.
StartTime_Now(now, nextPlayTime) == now

\* startTime = Math.max(ctx.currentTime, nextPlayTimeRef.current).
StartTime(now, nextPlayTime) == Max(now, nextPlayTime)

scheduleAudioChunkInternal(w, chunk) ==
    IF w.audioContextRef = 0 THEN w
    ELSE LET startTime == StartTime(w.currentTime, w.nextPlayTimeRef)
             v == IF w.chunkTimingsRef = <<>>
                  THEN startProgressTracking([w EXCEPT !.widgetStatus = "playing"])
                  ELSE w
         IN
         [v EXCEPT !.nextPlayTimeRef = startTime + chunk.dur,
                   !.chunkTimingsRef =
                       Append(@, [q |-> chunk.q, audioStartTime |-> startTime,
                                  audioEndTime |-> startTime + chunk.dur]),
                   !.sources = @ \cup {startTime + chunk.dur}]

scheduleAudioChunk(w, chunk) ==
    IF w.audioContextRef = 0 THEN w
    ELSE IF w.ctxState = "suspended"
    THEN [w EXCEPT !.pendingChunksRef = Append(@, chunk)]
    ELSE scheduleAudioChunkInternal(w, chunk)

\* for (const chunk of data.chunks) await scheduleAudioChunk(chunk).
RECURSIVE ScheduleArrived(_, _)
ScheduleArrived(w, chunks) ==
    IF chunks = <<>> THEN w
    ELSE ScheduleArrived(scheduleAudioChunk(w, Head(chunks)), Tail(chunks))

\* for (const chunk of chunks) await scheduleAudioChunkInternal(chunk).
RECURSIVE ScheduleHeld(_, _)
ScheduleHeld(w, chunks) ==
    IF chunks = <<>> THEN w
    ELSE ScheduleHeld(scheduleAudioChunkInternal(w, Head(chunks)), Tail(chunks))

\* close() is called on the context: from then on it is closed, plays
\* nothing and rejects resume(), suspend() and close().
closeCalled(w) == [w EXCEPT !.ctxState = "closed", !.sources = {}]

\* close() has settled and audioContextRef is set to null.
closeContext(w) ==
    [w EXCEPT !.audioContextRef = 0, !.ctxState = "none", !.currentTime = 0,
              !.sources = {}]

\* new AudioContext(...), in the state the browser's autoplay policy gives
\* it, and nextPlayTimeRef.current = 0.
newContext(w, state) ==
    [w EXCEPT !.contexts = @ + 1, !.audioContextRef = w.contexts + 1,
              !.ctxState = state, !.currentTime = 0, !.sources = {},
              !.nextPlayTimeRef = 0]

\* ---------------------------------------------------------------- poll loop

\* The answers a call of startPolling may get for its first poll (NoAnswer
\* when it sends none).
StartAnswers(w) ==
    IF w.isPollingRef \/ w.queueIdRef = None THEN {NoAnswer}
    ELSE PollAnswers(w, w.queueIdRef)

\* startPolling(), up to its first await.
startPollingCall(w, ans) ==
    IF w.isPollingRef \/ w.queueIdRef = None THEN w
    ELSE [pollArrives(w, w.queueIdRef, ans) EXCEPT
              !.isPollingRef = TRUE,
              !.pollLoops = Append(@, [pc |-> "inflight", q |-> w.queueIdRef,
                                       answer |-> ans])]

\* The loop of startPolling ends.
pollExit(w, i) ==
    [w EXCEPT !.pollLoops = Remove(@, i), !.isPollingRef = FALSE]

\* The answer of a poll arrives.
pollResult(w, i) ==
    LET ans == w.pollLoops[i].answer IN
    IF ans.error THEN pollExit(w, i)
    ELSE LET v == ScheduleArrived(w, ans.chunks) IN
         IF ans.done THEN pollExit([v EXCEPT !.allAudioReceivedRef = TRUE], i)
         ELSE [v EXCEPT !.pollLoops[i] = [pc |-> "sleeping", q |-> None,
                                          answer |-> NoAnswer]]

\* The sleep between two polls is over.
pollWake(w, i, ans) ==
    IF w.queueIdRef = None THEN pollExit(w, i)
    ELSE [pollArrives(w, w.queueIdRef, ans) EXCEPT
              !.pollLoops[i] = [pc |-> "inflight", q |-> w.queueIdRef,
                                answer |-> ans]]

\* -------------------------------------------------------------- tool input

sendTextToTTS(w, text) ==
    IF w.queueIdRef = None THEN w
    ELSE IF Len(text) > Len(w.lastTextRef)
    THEN LET diff == SubSeq(text, Len(w.lastTextRef) + 1, Len(text)) IN
         [addArrives(w, w.queueIdRef, diff) EXCEPT !.lastTextRef = text]
    ELSE w

RECURSIVE SendEach(_, _)
SendEach(w, texts) ==
    IF texts = <<>> THEN w
    ELSE SendEach(sendTextToTTS(w, Head(texts)), Tail(texts))

\* initTTSQueue once no context is open: the reset, and create_tts_queue.
initReset(w, ok) ==
    LET v == [w EXCEPT !.progressIntervalRef = FALSE, !.chunkTimingsRef = <<>>,
                       !.pendingChunksRef = <<>>, !.allAudioReceivedRef = FALSE,
                       !.widgetStatus = "idle"]
    IN [createArrives(v, ok) EXCEPT
            !.initCall = [NoCall EXCEPT !.pc = "creating",
                                        !.answer = CreateAnswer(v, ok)]]

\* initTTSQueue, called with no id and no call of it under way; the error of
\* close() on a closed context is caught.
initBegin(w, ok) ==
    IF w.audioContextRef = 0 THEN initReset(w, ok)
    ELSE IF w.ctxState = "closed" THEN initReset(closeContext(w), ok)
    ELSE [closeCalled(w) EXCEPT !.initCall = [NoCall EXCEPT !.pc = "closing"]]

\* close() of initTTSQueue has settled.
initClosed(w, ok) == initReset(closeContext(w), ok)

\* The answer of create_tts_queue arrives at initTTSQueue; the handlers that
\* await the call go on: the one that made the call with what the call
\* returns, the others with whether there is an id.
initCreated(w, state, ans) ==
    LET id == w.initCall.answer
        v == [w EXCEPT !.initCall = NoCall, !.waiting = <<>>]
    IN
    IF id = None
    THEN SendEach(v, IF v.queueIdRef = None THEN <<>> ELSE Tail(w.waiting))
    ELSE SendEach(startPollingCall(newContext([v EXCEPT !.queueIdRef = id], state),
                                   ans),
                  w.waiting)

\* ontoolinputpartial and ontoolinput.
onToolInput(w, text, ok) ==
    LET isNewSession == w.lastTextRef # <<>> /\ ~startsWith(text, w.lastTextRef)
        v == [(IF isNewSession
               THEN [w EXCEPT !.queueIdRef = None, !.lastTextRef = <<>>]
               ELSE w) EXCEPT !.inputsSeen = @ + 1]
    IN
    IF v.queueIdRef # None THEN sendTextToTTS(v, text)
    ELSE IF v.initCall.pc # "none" THEN [v EXCEPT !.waiting = Append(@, text)]
    ELSE initBegin([v EXCEPT !.waiting = <<text>>], ok)

onToolResult(w) ==
    endArrives([w EXCEPT !.fullTextRef = w.lastTextRef], w.queueIdRef)

\* ------------------------------------------------------------------ restart

\* restartPlayback returns: its finally clause.
restartReturn(w, i) ==
    [w EXCEPT !.toggleCalls = Remove(@, i), !.audioOperationInProgressRef = FALSE]

\* restartPlayback once no context is open.
restartReset(w, i, ok) ==
    LET textToReplay == IF w.fullTextRef # <<>> THEN w.fullTextRef ELSE w.lastTextRef
        v == [w EXCEPT !.queueIdRef = None, !.lastTextRef = <<>>,
                       !.isPollingRef = FALSE, !.nextPlayTimeRef = 0,
                       !.widgetStatus = "idle", !.chunkTimingsRef = <<>>,
                       !.allAudioReceivedRef = FALSE, !.pendingChunksRef = <<>>]
    IN
    IF textToReplay = <<>> THEN restartReturn(w, i)
    ELSE [createArrives(v, ok) EXCEPT
              !.toggleCalls[i] = [NoCall EXCEPT !.pc = "r_creating",
                                                !.text = textToReplay,
                                                !.answer = CreateAnswer(v, ok)]]

\* restartPlayback after cancelCurrentQueue; the error of close() on a closed
\* context ends the call.
restartCancelled(w, i, ok) ==
    IF w.audioContextRef = 0 THEN restartReset(w, i, ok)
    ELSE IF w.ctxState = "closed" THEN restartReturn(w, i)
    ELSE [closeCalled(w) EXCEPT !.toggleCalls[i] = [NoCall EXCEPT !.pc = "r_closing"]]

\* close() of restartPlayback has settled.
restartClosed(w, i, ok) == restartReset(closeContext(w), i, ok)

\* restartPlayback, from togglePlayPause.
restartPlayback(w, ok) ==
    LET i == Len(w.toggleCalls) + 1
        v == [w EXCEPT !.audioOperationInProgressRef = TRUE,
                       !.progressIntervalRef = FALSE,
                       !.toggleCalls = Append(@, [NoCall EXCEPT !.pc = "r_cancelling"])]
    IN
    IF v.queueIdRef # None THEN cancelArrives(v, v.queueIdRef)
    ELSE restartCancelled(v, i, ok)

\* The answer of create_tts_queue arrives at restartPlayback.
restartCreated(w, i, state) ==
    LET id == w.toggleCalls[i].answer IN
    IF id = None THEN restartReturn(w, i)
    ELSE [addArrives(newContext([w EXCEPT !.queueIdRef = id], state), id,
                     w.toggleCalls[i].text) EXCEPT
              !.toggleCalls[i].pc = "r_adding"]

\* The answer of add_tts_text arrives at restartPlayback.
restartAdded(w, i) ==
    [endArrives([w EXCEPT !.lastTextRef = w.toggleCalls[i].text], w.queueIdRef)
        EXCEPT !.toggleCalls[i].pc = "r_ending"]

\* The answer of end_tts_queue arrives at restartPlayback.
restartEnded(w, i, ans) == restartReturn(startPollingCall(w, ans), i)

\* ------------------------------------------------------------------- toggle

\* togglePlayPause with a context, status being the status it was called
\* with; resume() and suspend() of a closed context fail.
toggleWithContext(w, st) ==
    LET call(pc) == [w EXCEPT !.toggleCalls =
                        Append(@, [NoCall EXCEPT !.pc = pc, !.ctx = w.audioContextRef])]
    IN
    IF w.ctxState = "suspended" \/ w.pendingChunksRef # <<>>
    THEN IF w.ctxState = "suspended" THEN call("resuming")
         ELSE [w EXCEPT !.widgetStatus = "playing"]
    ELSE IF w.ctxState = "closed" THEN w
    ELSE IF st = "paused" THEN call("resumingPaused")
    ELSE IF st = "playing" THEN call("suspending")
    ELSE w

togglePlayPause(w, ok) ==
    IF w.audioOperationInProgressRef THEN w
    ELSE IF w.widgetStatus = "finished" THEN restartPlayback(w, ok)
    ELSE IF w.audioContextRef = 0
    THEN [w EXCEPT !.toggleCalls =
              Append(@, [NoCall EXCEPT !.pc = "waitContext", !.st = w.widgetStatus])]
    ELSE toggleWithContext(w, w.widgetStatus)

\* The wait of togglePlayPause for a context is over.
toggleWaited(w, i) ==
    LET v == [w EXCEPT !.toggleCalls = Remove(@, i)] IN
    IF w.audioContextRef = 0 THEN v
    ELSE toggleWithContext(v, w.toggleCalls[i].st)

\* ctx.resume() of ensureAudioContextResumed has settled.
ensureAudioContextResumed(w) ==
    LET v == [w EXCEPT !.ctxState = "running"] IN
    IF v.pendingChunksRef # <<>>
    THEN ScheduleHeld([v EXCEPT !.nextPlayTimeRef = v.currentTime,
                                !.pendingChunksRef = <<>>],
                      v.pendingChunksRef)
    ELSE v

\* An await of togglePlayPause on the context has settled: with an error
\* when close() was called on the context meanwhile.
toggleSettled(w, i) ==
    LET c == w.toggleCalls[i]
        v == [w EXCEPT !.toggleCalls = Remove(@, i)]
    IN
    IF c.ctx # w.audioContextRef \/ w.ctxState = "closed" THEN v
    ELSE IF c.pc = "resuming"
    THEN [ensureAudioContextResumed(v) EXCEPT !.widgetStatus = "playing"]
    ELSE IF c.pc = "resumingPaused"
    THEN [v EXCEPT !.ctxState = "running", !.widgetStatus = "playing"]
    ELSE [v EXCEPT !.ctxState = "suspended", !.widgetStatus = "paused"]

\* ------------------------------------------------------------------ actions

\* The host sends the tool's input, partial or whole.
ToolInput ==
    /\ inputsSeen < MaxInputs
    /\ \E text \in Texts : \E ok \in CreateOutcomes(Cur) :
           Becomes(onToolInput(Cur, text, ok))

ontoolresult ==
    /\ Becomes(onToolResult(Cur))

InitClosed ==
    /\ initCall.pc = "closing"
    /\ \E ok \in CreateOutcomes(Cur) : Becomes(initClosed(Cur, ok))

InitCreated ==
    /\ initCall.pc = "creating"
    /\ \E state \in {"running", "suspended"} :
       \E ans \in StartAnswers([Cur EXCEPT !.queueIdRef = initCall.answer]) :
           Becomes(initCreated(Cur, state, ans))

PollResult(i) ==
    /\ pollLoops[i].pc = "inflight"
    /\ Becomes(pollResult(Cur, i))

PollWake(i) ==
    /\ pollLoops[i].pc = "sleeping"
    /\ \E ans \in StartAnswers([Cur EXCEPT !.isPollingRef = FALSE]) :
           Becomes(pollWake(Cur, i, ans))

\* A click on the play button.
TogglePlayPause ==
    /\ Len(toggleCalls) < MaxToggles
    /\ \E ok \in CreateOutcomes(Cur) : Becomes(togglePlayPause(Cur, ok))

ToggleWaited(i) ==
    /\ toggleCalls[i].pc = "waitContext"
    /\ Becomes(toggleWaited(Cur, i))

ToggleSettled(i) ==
    /\ toggleCalls[i].pc \in {"resuming", "resumingPaused", "suspending"}
    /\ Becomes(toggleSettled(Cur, i))

RestartCancelled(i) ==
    /\ toggleCalls[i].pc = "r_cancelling"
    /\ \E ok \in CreateOutcomes(Cur) : Becomes(restartCancelled(Cur, i, ok))

RestartClosed(i) ==
    /\ toggleCalls[i].pc = "r_closing"
    /\ \E ok \in CreateOutcomes(Cur) : Becomes(restartClosed(Cur, i, ok))

RestartCreated(i) ==
    /\ toggleCalls[i].pc = "r_creating"
    /\ \E state \in {"running", "suspended"} : Becomes(restartCreated(Cur, i, state))

RestartAdded(i) ==
    /\ toggleCalls[i].pc = "r_adding"
    /\ Becomes(restartAdded(Cur, i))

RestartEnded(i) ==
    /\ toggleCalls[i].pc = "r_ending"
    /\ \E ans \in StartAnswers(Cur) : Becomes(restartEnded(Cur, i, ans))

\* The audio clock of a running context advances.
Tick ==
    /\ audioContextRef # 0
    /\ ctxState = "running"
    /\ currentTime < MaxTime
    /\ Becomes([Cur EXCEPT !.currentTime = @ + 1])

\* The callback of the progress timer.
ProgressTick ==
    /\ progressIntervalRef
    /\ audioContextRef # 0
    /\ MayFinish(Cur)
    /\ Becomes(finishPlayback(Cur))

\* onended of a buffer source that has played to its end.
SourceEnded(thisBufferEndTime) ==
    /\ thisBufferEndTime \in sources
    /\ audioContextRef # 0
    /\ currentTime >= thisBufferEndTime
    /\ LET w == [Cur EXCEPT !.sources = @ \ {thisBufferEndTime}] IN
       IF thisBufferEndTime >= nextPlayTimeRef - EndTolerance /\ MayFinish(w)
       THEN Becomes(finishPlayback(w))
       ELSE Becomes(w)

\* The widget's steps, as long as it has made no more than `sessions`
\* sessions, got no more than `chunks` chunks and its clock is at `time` at
\* most.
Within(sessions, chunks, time) ==
    /\ created' <= sessions
    /\ arrivals' <= chunks
    /\ currentTime' <= time

PlayerSteps(sessions, chunks, time) ==
    \/ ToolInput /\ Within(sessions, chunks, time)
    \/ ontoolresult /\ Within(sessions, chunks, time)
    \/ InitClosed /\ Within(sessions, chunks, time)
    \/ InitCreated /\ Within(sessions, chunks, time)
    \/ \E i \in 1..Len(pollLoops) : PollResult(i) /\ Within(sessions, chunks, time)
    \/ \E i \in 1..Len(pollLoops) : PollWake(i) /\ Within(sessions, chunks, time)
    \/ TogglePlayPause /\ Within(sessions, chunks, time)
    \/ \E i \in 1..Len(toggleCalls) : ToggleWaited(i) /\ Within(sessions, chunks, time)
    \/ \E i \in 1..Len(toggleCalls) : ToggleSettled(i) /\ Within(sessions, chunks, time)
    \/ \E i \in 1..Len(toggleCalls) :
          RestartCancelled(i) /\ Within(sessions, chunks, time)
    \/ \E i \in 1..Len(toggleCalls) : RestartClosed(i) /\ Within(sessions, chunks, time)
    \/ \E i \in 1..Len(toggleCalls) : RestartCreated(i) /\ Within(sessions, chunks, time)
    \/ \E i \in 1..Len(toggleCalls) : RestartAdded(i) /\ Within(sessions, chunks, time)
    \/ \E i \in 1..Len(toggleCalls) : RestartEnded(i) /\ Within(sessions, chunks, time)
    \/ Tick /\ Within(sessions, chunks, time)
    \/ ProgressTick /\ Within(sessions, chunks, time)
    \/ \E e \in 0..(MaxTime + MaxChunks * 2) :
          SourceEnded(e) /\ Within(sessions, chunks, time)

PlayerNext == PlayerSteps(MaxSessions, MaxChunks, MaxTime)

PlayerSpec == Init /\ [][PlayerNext]_vars

\* ------------------------------------------ clicks during an audio operation
\* The widget with clicks on the play button while earlier calls of
\* togglePlayPause are still waiting, over a shorter stretch of audio.

\* A click on the play button while a call of togglePlayPause or of
\* restartPlayback has not returned.
ClickWhileAwaiting ==
    /\ Len(toggleCalls) >= 1
    /\ Len(toggleCalls) < MaxRacing
    /\ \E ok \in CreateOutcomes(Cur) : Becomes(togglePlayPause(Cur, ok))
    /\ created' <= MaxSessions

RaceNext ==
    \/ PlayerSteps(MaxSessions, MaxRaceChunks, MaxRaceTime)
    \/ ClickWhileAwaiting

RaceSpec == Init /\ [][RaceNext]_vars

\* ------------------------------------------------- turn after turn, restart
\* The widget over three sessions: a turn, a second turn and a restart, over
\* a shorter stretch of audio.
TurnNext == PlayerSteps(MaxTurnSessions, MaxTurnChunks, MaxTurnTime)

TurnSpec == Init /\ [][TurnNext]_vars

\* ------------------------------------------- getCharacterPosition on its own
\* The position the progress timer shows: getCharacterPosition is called
\* with times that do not go back, over a list of timings that only grows
\* and a text that only grows.  Times are whole seconds and the offsets
\* whole characters, so that the floor of the interpolation is an integer
\* division.

\* text[pos] === " " || text[pos] === "\n", text[pos] being the character
\* after the first pos ones.
IsBreak(t, pos) == t[pos + 1] \in {" ", "\n"}

\* while (end < text.length && text[end] is no break) end++.
RECURSIVE WordEnd(_, _)
WordEnd(t, end) ==
    IF end < Len(t) /\ ~IsBreak(t, end) THEN WordEnd(t, end + 1) ELSE end

roundToWordEnd(t, pos) ==
    IF pos >= Len(t) THEN Len(t)
    ELSE IF pos <= 0 THEN 0
    ELSE IF IsBreak(t, pos) THEN pos
    ELSE WordEnd(t, pos)

\* The first chunk of the list whose interval holds the time, 0 for none.
Containing(list, time) ==
    LET hits == {i \in 1..Len(list) : /\ time >= list[i].audioStartTime
                                      /\ time < list[i].audioEndTime}
    IN IF hits = {} THEN 0 ELSE CHOOSE i \in hits : \A j \in hits : i <= j

\* rawPos, as the loop over the timings leaves it.
Interpolated(list, time) ==
    LET i == Containing(list, time) IN
    IF i = 0 THEN 0
    ELSE LET chunk == list[i]
             duration == chunk.audioEndTime - chunk.audioStartTime
         IN IF duration <= 0 THEN chunk.charStart
            ELSE chunk.charStart
                   + ((time - chunk.audioStartTime)
                        * (chunk.charEnd - chunk.charStart)) \div duration

\* rawPos before it is rounded.
RawPos(list, start, time) ==
    IF list = <<>> THEN (time - start) * CharsPerSecond
    ELSE LET rawPos == Interpolated(list, time) IN
         IF rawPos # 0 THEN rawPos
         ELSE IF time < list[1].audioStartTime THEN 0
         ELSE IF time >= list[Len(list)].audioEndTime
         THEN list[Len(list)].charEnd
         ELSE 0

getCharacterPosition(list, t, start, time) ==
    roundToWordEnd(t, RawPos(list, start, time))

\* The rest of the widget, the server and the chunker stay as they are.
SamplerOnly ==
    UNCHANGED <<server, widget, last, history, chunker, widgetStatus,
                audioContextRef, ctxState, currentTime, nextPlayTimeRef,
                chunkTimingsRef, pendingChunksRef, progressIntervalRef,
                audioOperationInProgressRef, lastTextRef, fullTextRef,
                sources, pollLoops, initCall, waiting, toggleCalls, remote,
                created, contexts, arrivals, inputsSeen>>

\* lastTextRef.current = text: the text grows by a character, a letter or
\* a space.
TextGrows ==
    /\ Len(textRead) < MaxTextLen
    /\ \E c \in {"a", " "} : textRead' = Append(textRead, c)
    /\ UNCHANGED <<timings, playbackStartTimeRef, sampleTime, charPosition>>
    /\ SamplerOnly

\* chunkTimingsRef.current.push(...): a buffer that starts no earlier than
\* the one before it ends, for the characters after those of the one before.
\* createBuffer makes no buffer without a frame, so the buffer lasts.
TimingPushed ==
    /\ Len(timings) < MaxTimings
    /\ LET n == Len(timings)
           nextPlayTime == IF n = 0 THEN 0 ELSE timings[n].audioEndTime
           char_start == IF n = 0 THEN 0 ELSE timings[n].charEnd
       IN \E startTime \in nextPlayTime..MaxSampleTime,
             endTime \in nextPlayTime..MaxSampleTime,
             char_end \in char_start..Len(textRead) :
             /\ startTime < endTime
             /\ timings' = Append(timings, [charStart |-> char_start,
                                            charEnd |-> char_end,
                                            audioStartTime |-> startTime,
                                            audioEndTime |-> endTime])
             /\ playbackStartTimeRef' =
                    IF n = 0 THEN startTime ELSE playbackStartTimeRef
    /\ UNCHANGED <<textRead, sampleTime, charPosition>>
    /\ SamplerOnly

\* setCharPosition(getCharacterPosition(ctx.currentTime)), at a time no
\* earlier than the last; the timer is started when the first timing is
\* pushed.
Sample ==
    /\ timings # <<>>
    /\ \E time \in sampleTime..MaxSampleTime :
          /\ sampleTime' = time
          /\ charPosition' = getCharacterPosition(timings, textRead,
                                                  playbackStartTimeRef, time)
    /\ UNCHANGED <<timings, textRead, playbackStartTimeRef>>
    /\ SamplerOnly

PositionNext ==
    \/ TextGrows
    \/ TimingPushed
    \/ Sample

PositionSpec == Init /\ [][PositionNext]_vars

\* ------------------------------------------------------------------ claims

Terminal == {"complete", "error"}

\* How many None markers a text queue holds.
Markers(queue) == Cardinality({i \in 1..Len(queue) : queue[i] = EndOfText})

\* C1: in every reachable state the chunks of a session are numbered 0, 1,
\* 2, ... without gap, the first starts at character 0, and each chunk starts
\* where the one before it ends.
C1_ChunksNumberedAndContiguous ==
    \A q \in QueueIds :
        LET c == audio_chunks[q] IN
        /\ \A k \in 1..Len(c) : c[k].index = k - 1
        /\ Len(c) > 0 => c[1].char_start = 0
        /\ \A k \in 1..(Len(c) - 1) : c[k].char_end = c[k + 1].char_start

\* A session holds three chunks, appended while adds, an end and polls went on.
C1_Witness ==
    \E q \in QueueIds :
        /\ Len(audio_chunks[q]) >= 3
        /\ endCalled[q]
        /\ chunks_delivered[q] >= 1

\* C2: the chunks the polls of a session have returned, in the order
\* returned, are a prefix of audio_chunks: none twice, none skipped, indexes
\* increasing.
C2_PolledOnceInOrder ==
    \A q \in QueueIds :
        /\ Len(polled[q]) <= Len(audio_chunks[q])
        /\ polled[q] = SubSeq(audio_chunks[q], 1, Len(polled[q]))
        /\ \A i, j \in 1..Len(polled[q]) : i < j => polled[q][i].index < polled[q][j].index

\* A poll has just returned chunks, after an earlier poll had returned others.
C2_Witness ==
    /\ last.op = "poll"
    /\ last.n >= 1
    /\ Len(polled[last.q]) > last.n

\* C3: a poll response says done exactly when the status is terminal
\* (complete or error) and, after the poll, every chunk is delivered.
C3_DoneIffTerminalAndDelivered ==
    (last.op = "poll" /\ last.res = "ok") =>
        (last.done <=> (/\ status[last.q] \in Terminal
                        /\ chunks_delivered[last.q] = Len(audio_chunks[last.q])))

\* C4: a status that has left "active" never changes again.
C4_StatusMonotone ==
    [][\A q \in QueueIds : status[q] # "active" => status'[q] = status[q]]_vars

\* C5: once cancel_tts_queue has answered "cancelled" for a session, its
\* audio_chunks never change again.
C5_NoAppendAfterCancel ==
    [][\A q \in QueueIds : cancelCalled[q] => audio_chunks'[q] = audio_chunks[q]]_vars

\* A session was cancelled while its synthesis call had returned and the
\* chunk was not appended yet.
C5_Witness ==
    \E q \in QueueIds :
        /\ cancelCalled[q]
        /\ task[q].pc = "synth"
        /\ task[q].fut = "ok"
        /\ task[q].must_cancel

\* C6 as claimed: an add_tts_text after end_tts_queue has answered "ended"
\* is answered "Queue already ended".
C6_AddAfterEndAlreadyEnded ==
    (last.op = "add" /\ endCalled[last.q]) => last.res = "Queue already ended"

\* C6 as amended: an add_tts_text after end_tts_queue has answered "ended"
\* queues nothing and is refused: with "Queue already ended" while the
\* session is registered, with "Queue not found" once a cancel or the
\* cleanup has removed it.
C6_AddAfterEndRefused ==
    [][\A q \in QueueIds :
        (endCalled[q] /\ last'.op = "add" /\ last'.q = q) =>
            /\ last'.res = IF q \in tts_queues THEN "Queue already ended"
                                               ELSE "Queue not found"
            /\ text_queue'[q] = text_queue[q]
            /\ added'[q] = added[q]]_vars

\* An add was refused with "Queue not found" on a session that had been ended.
C6_Witness ==
    /\ last.op = "add"
    /\ endCalled[last.q]
    /\ last.res = "Queue not found"

\* C7: on a registered session the first end_tts_queue answers "ended" and
\* puts one marker on the text queue; every later one answers
\* "already_ended" and changes nothing; the queue never holds two markers.
C7_EndIdempotent ==
    [][\A q \in QueueIds :
        (q \in tts_queues /\ last'.op = "end" /\ last'.q = q) =>
            /\ Markers(text_queue'[q]) <= 1
            /\ IF endCalled[q]
               THEN /\ last'.res = "already_ended"
                    /\ UNCHANGED <<server, widget, history>>
               ELSE /\ last'.res = "ended"
                    /\ text_queue'[q] = Append(text_queue[q], EndOfText)
                    /\ Markers(text_queue[q]) = 0
                    /\ UNCHANGED <<tts_queues, status, error_message, audio_chunks,
                                   chunks_delivered, task, cleanup_pending>>]_vars

\* A second end_tts_queue was answered "already_ended".
C7_Witness ==
    /\ last.op = "end"
    /\ last.res = "already_ended"
    /\ last.q \in tts_queues

\* C8: when the worker of a session meets the exception of a synthesis call,
\* the status becomes "error", error_message is the exception's text, no
\* chunk is appended and the worker ends; after that the chunks never change,
\* the worker stays ended, and a poll of the session answers status "error".
C8_SynthesisFailure ==
    [][\A q \in QueueIds :
        /\ (/\ task[q].pc = "synth" /\ task[q].fut = "raise"
            /\ ~task[q].must_cancel /\ ~task'[q].must_cancel
            /\ task'[q] # task[q]) =>
                /\ task'[q].pc = "failed"
                /\ status'[q] = "error"
                /\ error_message'[q] = task[q].exc
                /\ audio_chunks'[q] = audio_chunks[q]
        /\ task[q].pc = "failed" =>
                /\ task'[q].pc = "failed"
                /\ audio_chunks'[q] = audio_chunks[q]
                /\ error_message'[q] = error_message[q]
                /\ (last'.op = "poll" /\ last'.q = q /\ last'.res = "ok") =>
                       last'.status = "error"]_vars

\* A session whose second chunk failed was polled and answered "error".
C8_Witness ==
    /\ last.op = "poll"
    /\ last.status = "error"
    /\ task[last.q].pc = "failed"
    /\ Len(audio_chunks[last.q]) >= 1
    /\ error_message[last.q] \in ErrorTexts

\* C9: after a poll response with status "error" the widget's loop polls no
\* more.
C9_NoPollAfterErrorStatus == ~polledAfterError

\* C10: a registered session with a terminal status and every chunk
\* delivered eventually leaves the registry.
C10_EventuallyRemoved ==
    \A q \in SessionIds :
        (/\ q \in tts_queues
         /\ status[q] \in Terminal
         /\ chunks_delivered[q] = Len(audio_chunks[q])) ~> (q \notin tts_queues)

\* C11 as claimed: once a poll of a session has answered done, every later
\* poll of it answers no chunks, done and the same status until a cleanup()
\* task has fired, and "Queue not found" after that.
C11_DuplicatePollUntilCleanup ==
    [][\A q \in QueueIds :
        (doneSeen[q] # <<>> /\ last'.op = "poll" /\ last'.q = q) =>
            IF cleanupFired[q]
            THEN last'.res = "Queue not found"
            ELSE /\ last'.res = "ok"
                 /\ last'.n = 0
                 /\ last'.done
                 /\ last'.status = doneSeen[q][1]]_vars

\* C11 as amended: once a poll of a session has answered done, every later
\* poll of it answers no chunks, done and the same status while the session
\* is registered; it answers "Queue not found" only once a cleanup() task
\* has fired or cancel_tts_queue has removed the session.
C11_DuplicatePollUntilRemoved ==
    [][\A q \in QueueIds :
        (doneSeen[q] # <<>> /\ last'.op = "poll" /\ last'.q = q) =>
            IF cleanupFired[q] \/ cancelCalled[q]
            THEN last'.res = "Queue not found"
            ELSE /\ last'.res = "ok"
                 /\ last'.n = 0
                 /\ last'.done
                 /\ last'.status = doneSeen[q][1]]_vars

\* A second poll answered done before any cleanup() task had fired.
C11_Witness ==
    /\ last.op = "poll"
    /\ last.res = "ok"
    /\ Len(doneSeen[last.q]) = 2
    /\ ~cleanupFired[last.q]
    /\ cleanup_pending[last.q]

\* C12: once cancel_tts_queue has answered "cancelled" for an id, every
\* add_tts_text, end_tts_queue, cancel_tts_queue and poll_tts_audio of that id
\* answers "Queue not found" and leaves the server's state as it is.
C12_NotFoundAfterCancel ==
    [][\A q \in QueueIds :
        (cancelCalled[q] /\ last'.op \in {"add", "end", "cancel", "poll"}
                         /\ last'.q = q) =>
            /\ last'.res = "Queue not found"
            /\ last'.n = 0
            /\ last'.status = None
            /\ UNCHANGED <<server, polled>>]_vars

\* A second cancel_tts_queue of a session that held chunks no poll had
\* returned was answered "Queue not found".
C12_Witness ==
    /\ last.op = "cancel"
    /\ last.res = "Queue not found"
    /\ cancelCalled[last.q]
    /\ chunks_delivered[last.q] < Len(audio_chunks[last.q])

\* C13: create_tts_queue without the model answers "TTS model not loaded"
\* and leaves the server's state as it is; with the model it registers one
\* session that was not registered, with status "active", an empty text
\* queue, no chunks, chunks_delivered 0, and starts one task, for that session.
C13_CreateOrModelUnavailable ==
    [][last'.op = "create" =>
        IF ~tts_model
        THEN /\ last'.res = "TTS model not loaded"
             /\ UNCHANGED server
        ELSE /\ last'.res = "created"
             /\ \E q \in QueueIds :
                 /\ q \notin tts_queues
                 /\ tts_queues' = tts_queues \cup {q}
                 /\ status'[q] = "active"
                 /\ text_queue'[q] = <<>>
                 /\ audio_chunks'[q] = <<>>
                 /\ chunks_delivered'[q] = 0
                 /\ task[q].pc = "none"
                 /\ task'[q].pc = "start"
                 /\ \A r \in QueueIds \ {q} : task'[r] = task[r]]_vars

\* create_tts_queue was refused for want of the model.
C13_Witness ==
    /\ last.op = "create"
    /\ last.res = "TTS model not loaded"

\* create_tts_queue registered a session.
C13_WitnessCreated ==
    /\ last.op = "create"
    /\ last.res = "created"

\* C14: when a session has completed through end_tts_queue, with no failed
\* synthesis and no cancel, its last chunk ends at the number of characters
\* add_tts_text has accepted.
C14_ChunksCoverAcceptedText ==
    \A q \in QueueIds :
        (/\ status[q] = "complete"
         /\ task[q].pc = "returned"
         /\ endCalled[q]
         /\ ~cancelCalled[q]
         /\ audio_chunks[q] # <<>>) =>
            audio_chunks[q][Len(audio_chunks[q])].char_end = acceptedChars[q]

\* The texts of the emitted chunks, one after the other.
RECURSIVE Concat(_)
Concat(records) ==
    IF records = <<>> THEN <<>> ELSE Head(records).text \o Concat(Tail(records))

\* C15: after the fragments of a string and flush(), the chunks returned,
\* concatenated in order, are the string, however the string was cut.
C15_ReassemblyExact == flushed => Concat(emitted) = original

\* C16: every chunk add_text has returned was taken from a buffer that,
\* trimmed, held min_tokens tokens or more; a chunk taken from fewer can only
\* be one flush() has returned.
C16_NoEarlyChunk ==
    \A i \in 1..Len(emitted) :
        emitted[i].held < min_tokens => emitted[i].call = "flush"

\* add_text has returned a chunk, and flush() one from fewer than min_tokens
\* tokens.
C16_Witness ==
    /\ \E i \in 1..Len(emitted) : emitted[i].call = "add_text"
    /\ \E i \in 1..Len(emitted) :
           emitted[i].call = "flush" /\ emitted[i].held < min_tokens

\* The step schedules chunks after those already scheduled.
ChunksScheduled ==
    /\ Len(chunkTimingsRef') > Len(chunkTimingsRef)
    /\ SubSeq(chunkTimingsRef', 1, Len(chunkTimingsRef)) = chunkTimingsRef

C18_NoOverlapAfterResume ==
    \A i \in 1..(Len(chunkTimingsRef) - 1) :
        chunkTimingsRef[i + 1].audioStartTime >= chunkTimingsRef[i].audioEndTime

\* The edges of the playback state machine.
StatusEdges ==
    { <<"idle", "playing">>, <<"playing", "paused">>, <<"paused", "playing">>,
      <<"playing", "finished">>, <<"paused", "finished">>, <<"finished", "idle">> }

\* C19: the playback status changes only along the edges of the state
\* machine: idle to playing, playing to paused and back, playing or paused
\* to finished, finished to idle.
C19_OnlyStatedEdges ==
    [][widgetStatus' # widgetStatus =>
          <<widgetStatus, widgetStatus'>> \in StatusEdges]_vars

\* C20: the status becomes finished only in a step taken with
\* allAudioReceivedRef set and the context's time no more than the tolerance
\* short of nextPlayTimeRef.
C20_FinishedOnlyWhenDoneAndPlayed ==
    [][(widgetStatus # "finished" /\ widgetStatus' = "finished") =>
          /\ allAudioReceivedRef
          /\ currentTime >= nextPlayTimeRef - FinishTolerance]_vars

\* Finished was declared after two chunks, the done signal and the playing of
\* the audio up to the tolerance.
C20_Witness ==
    /\ widgetStatus = "finished"
    /\ allAudioReceivedRef
    /\ Len(chunkTimingsRef) = 2
    /\ nextPlayTimeRef > FinishTolerance
    /\ currentTime = nextPlayTimeRef - FinishTolerance

\* The calls of togglePlayPause that await a pause (suspend), a resume or a
\* step of restartPlayback.
AwaitingAudioOperation ==
    { i \in 1..Len(toggleCalls) :
        toggleCalls[i].pc \in {"suspending", "resuming", "resumingPaused",
                               "r_cancelling", "r_closing", "r_creating",
                               "r_adding", "r_ending"} }

\* C21: at most one pause, resume or restart is awaiting at any time.
C21_OneAudioOperation == Cardinality(AwaitingAudioOperation) <= 1

\* C22: in every state and for every session, chunks_delivered is between
\* 0 and the length of audio_chunks; no step decreases chunks_delivered; no
\* step shortens audio_chunks or changes an entry it already holds.
C22_CursorWithinAppendOnlyChunks ==
    [][\A q \in QueueIds :
          /\ 0 <= chunks_delivered[q]
          /\ chunks_delivered[q] <= Len(audio_chunks[q])
          /\ 0 <= chunks_delivered'[q]
          /\ chunks_delivered'[q] <= Len(audio_chunks'[q])
          /\ chunks_delivered'[q] >= chunks_delivered[q]
          /\ Len(audio_chunks'[q]) >= Len(audio_chunks[q])
          /\ SubSeq(audio_chunks'[q], 1, Len(audio_chunks[q])) = audio_chunks[q]]_vars

\* A poll has delivered a chunk and the worker has appended another since.
C22_Witness ==
    \E q \in QueueIds :
        /\ chunks_delivered[q] >= 1
        /\ chunks_delivered[q] < Len(audio_chunks[q])

\* C23: once end_tts_queue has ended a session, then, unless a synthesis
\* call fails or the session is cancelled, a poll eventually answers done
\* with status complete; and the worker sets the status to complete only in
\* the step that appends the last chunk of the flush (or finds none left),
\* having taken every fragment from the queue, and then returns.
C23_NormalCompletion ==
    /\ \A q \in SessionIds :
           endCalled[q] ~> \/ cancelCalled[q]
                           \/ status[q] = "error"
                           \/ (doneSeen[q] # <<>> /\ doneSeen[q][1] = "complete")
    /\ [][\A q \in SessionIds :
             (status[q] = "active" /\ status'[q] = "complete" /\ ~cancelCalled'[q]) =>
                 /\ endCalled[q]
                 /\ task'[q].pc = "returned"
                 /\ text_queue'[q] = <<>>
                 /\ Len(task[q].todo) <= 1
                 /\ Len(audio_chunks'[q]) = Len(audio_chunks[q]) + Len(task[q].todo)]_vars

\* A session ended by end_tts_queue, with no failure and no cancel, whose
\* chunks a poll has answered with done and status complete.
C23_Witness ==
    \E q \in SessionIds :
        /\ endCalled[q]
        /\ ~cancelCalled[q]
        /\ doneSeen[q] # <<>>
        /\ doneSeen[q][1] = "complete"
        /\ Len(audio_chunks[q]) >= 2
        /\ polled[q] = audio_chunks[q]

\* C24: when add_text returns, the buffer it leaves holds fewer than
\* max_tokens tokens; a buffer that held max_tokens or more with the new
\* text has yielded a chunk, of exactly max_tokens tokens when it had no
\* sentence boundary.
C24_ForwardProgress ==
    [][fed' > fed =>
          LET text == SubSeq(original, fed + 1, fed')
              tokens == tokenizer(strip(self_buffer \o text))
          IN
          /\ Len(tokenizer(strip(self_buffer'))) < max_tokens
          /\ Len(tokens) >= max_tokens =>
                /\ Len(emitted') > Len(emitted)
                /\ Boundaries(tokens) = <<>> =>
                      Len(tokenizer(emitted'[Len(emitted) + 1].text)) = max_tokens]_vars

\* add_text has split a buffer with no sentence boundary at max_tokens.
C24_Witness ==
    \E i \in 1..Len(emitted) :
        /\ emitted[i].call = "add_text"
        /\ emitted[i].held > max_tokens
        /\ Len(tokenizer(emitted[i].text)) = max_tokens
        /\ Boundaries(tokenizer(emitted[i].text)) = <<>>

\* The boundary offsets of a token sequence: the positions just after a run
\* of end-of-sentence tokens, the length included when the last token is one.
BoundaryOffsets(tokens) ==
    { i \in 1..Len(tokens) :
        /\ tokens[i] \in eos_tokens
        /\ (i = Len(tokens) \/ tokens[i + 1] \notin eos_tokens) }

\* C25: for a token sequence of max_tokens tokens or more, _find_best_split
\* returns the largest boundary offset that is at most max_tokens when there
\* is one; otherwise the smallest boundary offset when there is a boundary;
\* otherwise max_tokens.  The result lies in 1..len(tokens).
C25_BestSplit ==
    (split_result # <<>> /\ Len(split_tokens) >= max_tokens) =>
        LET offsets == BoundaryOffsets(split_tokens)
            within == { b \in offsets : b <= max_tokens }
            result == split_result[1]
        IN
        /\ result \in 1..Len(split_tokens)
        /\ within # {} =>
              result \in within /\ \A b \in within : b <= result
        /\ (within = {} /\ offsets # {}) =>
              result \in offsets /\ \A b \in offsets : result <= b
        /\ offsets = {} => result = max_tokens

\* _find_best_split has returned the second of two boundaries that are at
\* most max_tokens, with a third boundary beyond max_tokens.
C25_Witness ==
    /\ split_result # <<>>
    /\ Len(split_tokens) >= max_tokens
    /\ \E b \in BoundaryOffsets(split_tokens) : b < split_result[1]
    /\ \E b \in BoundaryOffsets(split_tokens) : b > max_tokens
    /\ split_result[1] <= max_tokens

\* C26: when the trimmed buffer of add_text holds at least min_tokens and
\* fewer than max_tokens tokens, add_text returns the whole trimmed buffer as
\* one chunk and empties the buffer if the last token is an end-of-sentence
\* token; otherwise it returns nothing and leaves the buffer as it is, a
\* sentence boundary inside it or not.
C26_EarlyEmitOnlyAtSentenceEnd ==
    [][fed' > fed =>
          LET buffer == self_buffer \o SubSeq(original, fed + 1, fed')
              tokens == tokenizer(strip(buffer))
          IN
          (Len(tokens) >= min_tokens /\ Len(tokens) < max_tokens) =>
              IF tokens[Len(tokens)] \in eos_tokens
              THEN /\ Len(emitted') = Len(emitted) + 1
                   /\ emitted'[Len(emitted')].text = strip(buffer)
                   /\ self_buffer' = <<>>
              ELSE /\ emitted' = emitted
                   /\ self_buffer' = buffer]_vars

\* add_text has kept a buffer of min_tokens tokens or more, fewer than
\* max_tokens, that has a sentence boundary inside it and does not end on one.
C26_Witness ==
    /\ fed > 0
    /\ ~flushed
    /\ emitted = <<>>
    /\ LET tokens == tokenizer(strip(self_buffer)) IN
       /\ Len(tokens) >= min_tokens
       /\ Len(tokens) < max_tokens
       /\ \E b \in BoundaryOffsets(tokens) : b < Len(tokens)

\* C27: flush() returns what remains whatever min_tokens is: after it the
\* buffer has no text but whitespace, every chunk it returned is non-empty,
\* a flush() right after it returns the empty list; on a buffer that has
\* text it returns at least one chunk, and on an empty or whitespace-only
\* buffer it returns the empty list.
C27_FlushEmitsAll ==
    /\ [](flushed =>
            /\ strip(self_buffer) = <<>>
            /\ \A i \in 1..Len(emitted) :
                  emitted[i].call = "flush" => emitted[i].text # <<>>
            /\ reflushed # <<>> => reflushed[1] = <<>>)
    /\ [][(flushed' /\ ~flushed) =>
             IF strip(self_buffer) = <<>>
             THEN emitted' = emitted
             ELSE Len(emitted') > Len(emitted)]_vars

\* flush() has returned a chunk of fewer than min_tokens tokens, and the
\* flush() after it has returned the empty list.
C27_Witness ==
    /\ flushed
    /\ reflushed = << <<>> >>
    /\ \E i \in 1..Len(emitted) :
          /\ emitted[i].call = "flush"
          /\ Len(tokenizer(emitted[i].text)) < min_tokens

\* A step of a tool call or of the worker of session a.
StepOn(a) ==
    \/ \E text \in PairFragments : add_tts_text(a, text)
    \/ end_tts_queue(a)
    \/ cancel_tts_queue(a)
    \/ poll_tts_audio(a)
    \/ cleanup(a)
    \/ Worker(a)

\* C28: a step of add_tts_text, end_tts_queue, cancel_tts_queue,
\* poll_tts_audio or of the worker of a session, a failed synthesis
\* included, leaves the status, the text queue, end_signaled, audio_chunks,
\* chunks_delivered and the registration of every other session as they are.
C28_SessionsIndependent ==
    [][\A a \in PairIds : StepOn(a) =>
          \A b \in PairIds \ {a} :
              /\ status'[b] = status[b]
              /\ text_queue'[b] = text_queue[b]
              /\ end_signaled'[b] = end_signaled[b]
              /\ audio_chunks'[b] = audio_chunks[b]
              /\ chunks_delivered'[b] = chunks_delivered[b]
              /\ (b \in tts_queues') = (b \in tts_queues)]_vars

\* The synthesis of one session has failed and the other session, still
\* registered, has completed with audio.
C28_Witness ==
    \E a, b \in PairIds :
        /\ status[a] = "error"
        /\ status[b] = "complete"
        /\ b \in tts_queues
        /\ ~cancelCalled[b]
        /\ audio_chunks[b] # <<>>

\* The fragments a session was sent, joined; those of an id no session has
\* yet are none.
RECURSIVE Joined(_)
Joined(fragments) ==
    IF fragments = <<>> THEN <<>> ELSE Head(fragments) \o Joined(Tail(fragments))

Submitted(sessions, q) == IF q \in DOMAIN sessions THEN sessions[q].text ELSE <<>>

\* C29: when the host's text comes in and the current session has been sent
\* text that it does not start with, the handler appends nothing to that
\* session, nor to any other session there is; and the session initTTSQueue
\* then makes for it is sent the whole text as its first fragment.
C29_NewTurnGoesToFreshSession ==
    /\ [][inputsSeen' > inputsSeen =>
            \A q \in DOMAIN remote :
                (/\ Submitted(remote, q) # <<>>
                 /\ Submitted(remote', q) # Submitted(remote, q)) =>
                    /\ q = queueIdRef
                    /\ startsWith(lastTextRef', Joined(Submitted(remote, q)))]_vars
    /\ [][(/\ initCall.pc = "creating"
            /\ initCall'.pc = "none"
            /\ initCall.answer # None
            /\ \E q \in DOMAIN remote : Submitted(remote, q) # <<>>) =>
               /\ Submitted(remote', initCall.answer) # <<>>
               /\ Submitted(remote', initCall.answer)[1] = Head(waiting)]_vars

\* The sessions that are registered and active for certain: made, and
\* neither ended nor cancelled.
OpenSessions == { q \in DOMAIN remote : remote[q].st = "open" }

\* C30: restartPlayback issues create_tts_queue only once the current
\* session, when there is one, has been cancelled and the audio context is
\* closed; the session it has made is sent the whole text to replay as its
\* one fragment, then ended, and is polled only after that; and while
\* restartPlayback is at work on that session no other session of the widget
\* is registered and active.
C30_RestartOrdering ==
    /\ [][\A i \in 1..Len(toggleCalls') :
            (/\ toggleCalls'[i].pc = "r_creating"
             /\ (i > Len(toggleCalls) \/ toggleCalls[i].pc # "r_creating")) =>
                /\ audioContextRef' = 0
                /\ queueIdRef # None => remote'[queueIdRef].st = "cancelled"]_vars
    /\ [](\A i \in 1..Len(toggleCalls) :
             LET c == toggleCalls[i] IN
             /\ c.pc \in {"r_adding", "r_ending"} =>
                   /\ remote[c.answer].text = <<c.text>>
                   /\ \A k \in 1..Len(pollLoops) : pollLoops[k].q # c.answer
                   /\ OpenSessions \subseteq {c.answer}
             /\ c.pc = "r_adding" => remote[c.answer].st = "open"
             /\ c.pc = "r_ending" => remote[c.answer].st = "ended")

\* C31: add_tts_text answers "queued" only for a session whose worker has
\* not exited (its status is neither error nor complete), and every fragment
\* so acknowledged on a session that is not cancelled is taken off the text
\* queue by the worker in the end.
C31_AcknowledgedTextIsConsumed ==
    /\ [][\A q \in SessionIds :
            (last'.op = "add" /\ last'.q = q /\ last'.res = "queued") =>
                status[q] \notin Terminal]_vars
    /\ \A q \in SessionIds :
          [](added[q] > 0 => <>(cancelCalled[q] \/ text_queue[q] = <<>>))

\* C32: when the status becomes finished no chunk is held pending, and
\* (with one session made, so that every chunk received is of the session
\* that plays) every chunk received has its entry in chunkTimingsRef.
C32_FinishedWithNothingPending ==
    [][(widgetStatus' = "finished" /\ widgetStatus # "finished") =>
          /\ pendingChunksRef' = <<>>
          /\ created = 1 => Len(chunkTimingsRef') = arrivals']_vars

\* C33: at most one poll loop of the widget is running at any time, and
\* isPollingRef is true exactly while a loop is running.
C33_OnePollLoop ==
    /\ Len(pollLoops) <= 1
    /\ isPollingRef <=> pollLoops # <<>>

\* C34: once the widget has a new session, no chunk of an earlier session is
\* scheduled into the new session's context: every entry of chunkTimingsRef
\* (one is pushed for each buffer started) is of the session in queueIdRef.
C34_NoChunkOfAnEarlierSession ==
    queueIdRef # None =>
        \A i \in 1..Len(chunkTimingsRef) : chunkTimingsRef[i].q = queueIdRef

\* C35: each time getCharacterPosition is called, with a time no earlier
\* than the last and a list of timings that has only grown, the position is
\* no less than the last one; before the first interval it is 0 and from the
\* end of the last interval on it is the last chunk's charEnd.
C35_PositionNeverGoesBack ==
    [][(timings' = timings /\ textRead' = textRead) =>
          /\ charPosition' >= charPosition
          /\ timings # <<>> =>
                /\ sampleTime' < timings[1].audioStartTime => charPosition' = 0
                /\ sampleTime' >= timings[Len(timings)].audioEndTime =>
                      charPosition' = timings[Len(timings)].charEnd]_vars

====
